---- MODULE Spec2Model ----
(***************************************************************************)
(* Fusionbot: the reputation store (database.py), the moderation actions   *)
(* (moderation_system.py), the message pipeline and command dispatcher     *)
(* (vk_bot_v6_clean.py) and the AI provider chain (ai_system.py).          *)
(*                                                                         *)
(* Spec   : store operations, moderation actions and the message pipeline. *)
(* SpecAI : one resolution of AISystem.get_ai_response, call by call.      *)
(***************************************************************************)
EXTENDS Integers, Sequences, FiniteSets, TLC

VARIABLES
    users,        \* table users: user_id -> row (present = the row exists)
    chat_admins,  \* table chat_admins: set of <<user_id, chat_id>>
    now,          \* wall clock, seconds (datetime.now().timestamp())
    last,         \* observation: the operation performed by the last step
    replies,      \* observation: texts handed to send_message by the last step
    streak,       \* observation: successful warns in a row on one target
    calls,        \* observation: calls made outside the pipeline
    ai,           \* state of one get_ai_response resolution
    blocked_count,  \* ContentModeration.blocked_count
    checked,      \* observation: the text given to check_content and its result
    user_last_message,  \* AsyncVKBot.user_last_message: user_id -> time
    inbox,        \* new-message events that the long poll holds, oldest first
    handler,      \* _handle_new_message: idle, or awaiting _process_message
    events,       \* observation: the events handled so far, oldest first
    connected,    \* whether sqlite3.connect(db_path) succeeds
    error_history,  \* ErrorHandler.error_history: list of ErrorInfo
    error_counts,   \* ErrorHandler.error_counts: dict from error key to count
    error_result,   \* observation: what the last handle_error returned
    last_send_time, \* VKBotClean._last_send_time
    attempts,       \* observation: the requests of messages.send, oldest first
    awards          \* the experience awards in progress: writer -> position

filterVars == <<blocked_count, checked>>

floodVars == <<user_last_message, inbox, handler, events>>

errorVars == <<error_history, error_counts, error_result>>

sendVars == <<last_send_time, attempts>>

vars ==
    <<users, chat_admins, now, last, replies, streak, calls, ai, filterVars,
      floodVars, connected, errorVars, sendVars, awards>>

----------------------------------------------------------------------------
(* Bounds of the model *)

MaxUser == 2
MaxTicks == 1
MaxWarnings == 5
MaxExp == 110
MaxCalls == 2
MaxPieces == 3
MaxBlocked == 2
MaxInbox == 2
MaxEvents == 3
MaxSeconds == 3

UserIds == 1..MaxUser
\* the id that the mentions of the modelled messages name
MentionId == MaxUser
\* experience of the rows found in the database file when the bot starts
InitExps == {4000}
\* amounts passed to add_experience by callers outside the pipeline
ExpAmounts == {95}
TickStep == 1801
MuteMinutes == {30}
MaxErrors == 2
MaxAttempts == 3
MaxWait == 3
MaxWriters == 2
MaxDispatch == 1

\* the processes that write to one database file
Writers == 1..MaxWriters

\* no writer has begun an award
NoAwards ==
    [w \in Writers |-> [pc |-> "idle", user_id |-> 0, amount |-> 0,
                        current_exp |-> 0, current_rank |-> 0]]

----------------------------------------------------------------------------
(* database.py *)

NULL == -1
GroupBase == 2000000000
Peers == {GroupBase + 1}

AbsentRow ==
    [present |-> FALSE, first_name |-> "", join_date |-> NULL,
     experience |-> 0, rank_level |-> 1, warnings |-> 0,
     banned |-> FALSE, mute_until |-> NULL]

\* Every method opens its own connection inside try/except: when connect
\* raises, a SELECT gives the caller nothing (get_user returns None, is_admin
\* False) and an INSERT or UPDATE is not executed.
Rows(us) == IF connected THEN us ELSE [u \in DOMAIN us |-> AbsentRow]

Admins(admins) == IF connected THEN admins ELSE {}

\* get_user: the row, or None (modelled as AbsentRow with present = FALSE)
get_user(us, user_id) == us[user_id]

\* INSERT OR REPLACE names only user_id, first_name, last_name, join_date and
\* last_activity: the old row is deleted and every other column takes its
\* DEFAULT (experience 0, rank_level 1, warnings 0, banned 0, mute_until NULL).
\* first_name (last_name is written the same way) comes from user_info and
\* join_date is COALESCE(the stored join_date, current_time).
create_or_update_user_restamping(us, user_id, first_name, current_time) ==
    [us EXCEPT ![user_id] =
        [present |-> TRUE, first_name |-> first_name,
         join_date |-> current_time,
         experience |-> 0, rank_level |-> 1, warnings |-> 0,
         banned |-> FALSE, mute_until |-> NULL]]

create_or_update_user(us, user_id, first_name, current_time) ==
    IF ~connected THEN us ELSE
    [us EXCEPT ![user_id] =
        [present |-> TRUE, first_name |-> first_name,
         join_date |-> IF us[user_id].join_date # NULL
                       THEN us[user_id].join_date ELSE current_time,
         experience |-> 0, rank_level |-> 1, warnings |-> 0,
         banned |-> FALSE, mute_until |-> NULL]]

is_admin(admins, user_id, chat_id) == <<user_id, chat_id>> \in admins

set_admin_uncaught(admins, user_id, chat_id) ==
    admins \cup {<<user_id, chat_id>>}

set_admin(admins, user_id, chat_id) ==
    IF ~connected THEN admins ELSE admins \cup {<<user_id, chat_id>>}

exp_required == <<0, 100, 300, 600, 1000, 1500, 2500, 4000, 6000, 10000>>

rank_permissions(level) ==
    CASE level = 1 -> {"chat"}
      [] level = 2 -> {"chat", "voice"}
      [] level = 3 -> {"chat", "voice", "reactions"}
      [] level = 4 -> {"chat", "voice", "reactions", "jokes"}
      [] level = 5 -> {"chat", "voice", "reactions", "jokes", "games"}
      [] level = 6 -> {"chat", "voice", "reactions", "jokes", "games", "mentions"}
      [] level = 7 -> {"chat", "voice", "reactions", "jokes", "games", "mentions",
                       "moderate"}
      [] level = 8 -> {"chat", "voice", "reactions", "jokes", "games", "mentions",
                       "moderate", "warn"}
      [] level = 9 -> {"chat", "voice", "reactions", "jokes", "games", "mentions",
                       "moderate", "warn", "mute"}
      [] level = 10 -> {"chat", "voice", "reactions", "jokes", "games", "mentions",
                        "moderate", "warn", "mute", "kick", "ban"}
      [] OTHER -> {"chat"}

\* an add_experience that adds four times the amount
add_experience_fourfold(us, user_id, exp) ==
    IF us[user_id].present
    THEN [us EXCEPT ![user_id].experience = @ + 4 * exp]
    ELSE us

\* UPDATE ... WHERE user_id = ?: no row, no effect
add_experience(us, user_id, exp) ==
    IF us[user_id].present
    THEN [us EXCEPT ![user_id].experience = @ + exp]
    ELSE us

\* for rank_level in range(10, 0, -1): first level whose exp_required <= exp
RECURSIVE level_for(_, _)
level_for(exp, rank_level) ==
    IF rank_level = 0 THEN 1
    ELSE IF exp >= exp_required[rank_level] THEN rank_level
    ELSE level_for(exp, rank_level - 1)

\* get_user_rank: level and permissions derived from the stored experience;
\* the record returned for a missing user carries no permissions
get_user_rank(us, user_id) ==
    IF ~us[user_id].present
    THEN [level |-> 1, experience |-> 0, permissions |-> {}]
    ELSE LET level == level_for(us[user_id].experience, 10)
         IN [level |-> level, experience |-> us[user_id].experience,
             permissions |-> rank_permissions(level)]

\* an update_rank that rewrites the level and returns True for every user
\* with a row
update_rank_rewriting(us, user_id) ==
    IF ~us[user_id].present
    THEN [users |-> us, ret |-> FALSE]
    ELSE [users |-> [us EXCEPT ![user_id].rank_level =
                                  level_for(us[user_id].experience, 10)],
          ret |-> TRUE]

\* update_rank: [users, ret]; ret is TRUE iff the stored level was rewritten
update_rank(us, user_id) ==
    IF ~us[user_id].present
    THEN [users |-> us, ret |-> FALSE]
    ELSE LET new_level == level_for(us[user_id].experience, 10)
         IN IF new_level # us[user_id].rank_level
            THEN [users |-> [us EXCEPT ![user_id].rank_level = new_level],
                  ret |-> TRUE]
            ELSE [users |-> us, ret |-> FALSE]

db_mute_user(us, user_id, duration_minutes, t) ==
    IF us[user_id].present
    THEN [us EXCEPT ![user_id].mute_until = t + duration_minutes * 60]
    ELSE us

db_unmute_user(us, user_id) ==
    IF us[user_id].present
    THEN [us EXCEPT ![user_id].mute_until = NULL]
    ELSE us

\* is_muted: [users, ret]; a passed deadline is cleared by the read itself
is_muted_at_deadline(us, user_id, t) ==
    IF ~us[user_id].present \/ us[user_id].mute_until = NULL
    THEN [users |-> us, ret |-> FALSE]
    ELSE IF t >= us[user_id].mute_until
         THEN [users |-> db_unmute_user(us, user_id), ret |-> FALSE]
         ELSE [users |-> us, ret |-> TRUE]

is_muted(us, user_id, t) ==
    IF ~us[user_id].present \/ us[user_id].mute_until = NULL
    THEN [users |-> us, ret |-> FALSE]
    ELSE IF t > us[user_id].mute_until
         THEN [users |-> db_unmute_user(us, user_id), ret |-> FALSE]
         ELSE [users |-> us, ret |-> TRUE]

db_ban_user(us, user_id) ==
    IF us[user_id].present
    THEN [us EXCEPT ![user_id].banned = TRUE]
    ELSE us

db_unban_user(us, user_id) ==
    IF us[user_id].present
    THEN [us EXCEPT ![user_id].banned = FALSE]
    ELSE us

is_banned(us, user_id) == us[user_id].present /\ us[user_id].banned

add_warning(us, user_id) ==
    IF us[user_id].present
    THEN [us EXCEPT ![user_id].warnings = @ + 1]
    ELSE us

get_warnings(us, user_id) ==
    IF us[user_id].present THEN us[user_id].warnings ELSE 0

----------------------------------------------------------------------------
(* moderation_system.py: every action returns [users, success, message] *)

HttpOutcomes == {"ok", "error", "exception"}

_check_admin_permissions(us, admins, user_id, peer_id, action) ==
    \/ is_admin(admins, user_id, peer_id - GroupBase)
    \/ /\ action \in {"kick", "ban", "mute", "warn", "moderate"}
       /\ action \in get_user_rank(us, user_id).permissions

\* http: what messages.removeChatUser does ("ok": response 1, "error": an
\* error body, "exception": the request raises)
kick_user(us, admins, peer_id, user_id, admin_id, http) ==
    IF ~_check_admin_permissions(us, admins, admin_id, peer_id, "kick")
    THEN [users |-> us, success |-> FALSE, message |-> "kick_no_rights"]
    ELSE IF is_admin(admins, user_id, peer_id - GroupBase)
    THEN [users |-> us, success |-> FALSE, message |-> "kick_target_admin"]
    ELSE IF http = "exception"
    THEN [users |-> us, success |-> FALSE, message |-> "kick_exception"]
    ELSE IF http = "ok"
    THEN [users |-> add_experience(us, admin_id, 10), success |-> TRUE,
          message |-> "kick_done"]
    ELSE [users |-> us, success |-> FALSE, message |-> "kick_api_error"]

ban_user(us, admins, peer_id, user_id, admin_id, http) ==
    IF ~_check_admin_permissions(us, admins, admin_id, peer_id, "ban")
    THEN [users |-> us, success |-> FALSE, message |-> "ban_no_rights"]
    ELSE IF is_admin(admins, user_id, peer_id - GroupBase)
    THEN [users |-> us, success |-> FALSE, message |-> "ban_target_admin"]
    ELSE IF ~connected
    THEN [users |-> us, success |-> FALSE, message |-> "ban_error"]
    ELSE LET banned == db_ban_user(us, user_id)
             kick_result == kick_user(banned, admins, peer_id, user_id, admin_id, http)
         IN IF kick_result.success
            THEN [users |-> add_experience(kick_result.users, admin_id, 20),
                  success |-> TRUE, message |-> "ban_done_removed"]
            ELSE [users |-> kick_result.users, success |-> TRUE,
                  message |-> "ban_done_not_removed"]

moderation_mute_user(us, admins, peer_id, user_id, admin_id, duration_minutes, t) ==
    IF ~_check_admin_permissions(us, admins, admin_id, peer_id, "mute")
    THEN [users |-> us, success |-> FALSE, message |-> "mute_no_rights"]
    ELSE IF is_admin(admins, user_id, peer_id - GroupBase)
    THEN [users |-> us, success |-> FALSE, message |-> "mute_target_admin"]
    ELSE IF ~connected
    THEN [users |-> us, success |-> FALSE, message |-> "mute_error"]
    ELSE [users |-> add_experience(db_mute_user(us, user_id, duration_minutes, t),
                                   admin_id, 5),
          success |-> TRUE, message |-> "mute_done"]

\* the branch "elif warnings >= 5" follows "if warnings >= 3" and is never taken
warn_user(us, admins, peer_id, user_id, admin_id, t) ==
    IF ~_check_admin_permissions(us, admins, admin_id, peer_id, "warn")
    THEN [users |-> us, success |-> FALSE, message |-> "warn_no_rights"]
    ELSE IF ~connected
    THEN [users |-> us, success |-> FALSE, message |-> "warn_error"]
    ELSE LET warned == add_warning(us, user_id)
             warnings == get_warnings(warned, user_id)
             awarded == add_experience(warned, admin_id, 3)
         IN IF warnings >= 3
            THEN [users |-> db_mute_user(awarded, user_id, 30, t),
                  success |-> TRUE, message |-> "warn_automute"]
            ELSE [users |-> awarded, success |-> TRUE, message |-> "warn_done"]

\* check_user_status: [users, status]; is_muted may clear a passed deadline
check_user_status(us, user_id, t) ==
    IF is_banned(us, user_id)
    THEN [users |-> us, status |-> "banned"]
    ELSE LET m == is_muted(us, user_id, t)
         IN [users |-> m.users, status |-> IF m.ret THEN "muted" ELSE "ok"]

----------------------------------------------------------------------------
(* vk_bot_v6_clean.py: permissions, dispatcher and pipeline *)

AllPermissions ==
    {"chat", "voice", "reactions", "jokes", "games", "mentions", "moderate",
     "warn", "mute", "kick", "ban"}

ChatAdminPermissions ==
    {"chat", "voice", "reactions", "jokes", "games", "mentions", "moderate",
     "warn", "mute"}

\* vk: the answer of is_vk_group_admin (groups.getMembers, filter managers)
get_user_permissions(us, admins, user_id, peer_id, vk) ==
    IF vk
    THEN [is_vk_admin |-> TRUE, is_bot_admin |-> TRUE, rank_level |-> 10,
          permissions |-> AllPermissions]
    ELSE LET stored == IF us[user_id].present THEN us[user_id].rank_level ELSE 1
             bot_admin == is_admin(admins, user_id, peer_id - GroupBase)
         IN IF bot_admin /\ stored < 8
            THEN [is_vk_admin |-> FALSE, is_bot_admin |-> TRUE, rank_level |-> 8,
                  permissions |-> ChatAdminPermissions]
            ELSE [is_vk_admin |-> FALSE, is_bot_admin |-> bot_admin,
                  rank_level |-> stored,
                  permissions |-> rank_permissions(stored)]

Reply(text, rank) == [text |-> text, rank |-> rank]

CommandKinds ==
    {"kick", "mute", "ban", "warn", "unmute", "unban", "greeting", "other"}

ModerationKinds == {"kick", "mute", "ban", "warn"}

\* A message text, by what the dispatcher reads in it: the command it starts
\* with, the id its mention parses to (0: _parse_user_mention gives None) and
\* the minutes of a mute.
Commands ==
    [kind : CommandKinds, target : {0, MentionId}, minutes : MuteMinutes]

\* handle_commands: [users, replies, success]; success is the result of the
\* moderation action the command ran, FALSE when it ran none
handle_commands(us, admins, cmd, user_id, peer_id, t, vk, http) ==
    LET user_perms == get_user_permissions(us, admins, user_id, peer_id, vk)
        not_found == [users |-> us, replies |-> <<Reply("user_not_found", 0)>>,
                      success |-> FALSE]
        denied == [users |-> us,
                   replies |-> <<Reply("not_enough_rights", user_perms.rank_level)>>,
                   success |-> FALSE]
        answer(result) == [users |-> result.users,
                           replies |-> <<Reply(result.message, 0)>>,
                           success |-> result.success]
    IN CASE cmd.kind = "kick" ->
              IF "kick" \notin user_perms.permissions THEN denied
              ELSE IF cmd.target = 0 THEN not_found
              ELSE answer(kick_user(us, admins, peer_id, cmd.target, user_id, http))
         [] cmd.kind = "mute" ->
              IF "mute" \notin user_perms.permissions THEN denied
              ELSE IF cmd.target = 0 THEN not_found
              ELSE answer(moderation_mute_user(us, admins, peer_id, cmd.target,
                                               user_id, cmd.minutes, t))
         [] cmd.kind = "ban" ->
              IF "ban" \notin user_perms.permissions THEN denied
              ELSE IF cmd.target = 0 THEN not_found
              ELSE answer(ban_user(us, admins, peer_id, cmd.target, user_id, http))
         [] cmd.kind = "warn" ->
              IF "warn" \notin user_perms.permissions THEN denied
              ELSE IF cmd.target = 0 THEN not_found
              ELSE answer(warn_user(us, admins, peer_id, cmd.target, user_id, t))
         [] cmd.kind = "unmute" ->
              IF cmd.target = 0 THEN not_found
              ELSE IF ~connected
              THEN [users |-> us, replies |-> <<Reply("unmute_error", 0)>>,
                    success |-> FALSE]
              ELSE [users |-> db_unmute_user(us, cmd.target),
                    replies |-> <<Reply("unmuted", 0)>>, success |-> TRUE]
         [] cmd.kind = "unban" ->
              IF cmd.target = 0 THEN not_found
              ELSE IF ~connected
              THEN [users |-> us, replies |-> <<Reply("unban_error", 0)>>,
                    success |-> FALSE]
              ELSE [users |-> db_unban_user(us, cmd.target),
                    replies |-> <<Reply("unbanned", 0)>>, success |-> TRUE]
         [] cmd.kind = "greeting" ->
              [users |-> us, replies |-> <<Reply("greeting", 0)>>, success |-> FALSE]
         [] OTHER ->
              [users |-> us, replies |-> <<>>, success |-> FALSE]

\* user_info = {"first_name": ..., "last_name": "VK"}: the same for everybody
\* (the first name is transliterated)
PipelineName == "Polzovatel"

\* a process_message that registers the sender and awards the experience
\* before it looks at the status
process_message_registering_first(us, admins, cmd, user_id, peer_id, t, vk, http) ==
    LET registered == create_or_update_user(us, user_id, PipelineName, t)
        awarded == add_experience(registered, user_id, 1)
        user_status == check_user_status(awarded, user_id, t)
    IN IF user_status.status # "ok"
       THEN [users |-> user_status.users,
             replies |-> <<Reply(user_status.status, 0)>>,
             processed |-> FALSE, success |-> FALSE]
       ELSE LET ranked == update_rank(user_status.users, user_id)
                rank_up == IF ranked.ret
                           THEN <<Reply("new_rank",
                                        get_user_rank(ranked.users, user_id).level)>>
                           ELSE <<>>
                handled == handle_commands(ranked.users, admins, cmd, user_id,
                                           peer_id, t, vk, http)
            IN [users |-> handled.users, replies |-> rank_up \o handled.replies,
                processed |-> TRUE, success |-> handled.success]

\* process_message: [users, replies, processed, success]
process_message(us, admins, cmd, user_id, peer_id, t, vk, http) ==
    LET user_status == check_user_status(us, user_id, t)
    IN IF user_status.status # "ok"
       THEN [users |-> user_status.users,
             replies |-> <<Reply(user_status.status, 0)>>,
             processed |-> FALSE, success |-> FALSE]
       ELSE LET registered == create_or_update_user(user_status.users, user_id,
                                                    PipelineName, t)
                awarded == add_experience(registered, user_id, 1)
                ranked == update_rank(awarded, user_id)
                rank_up == IF ranked.ret
                           THEN <<Reply("new_rank",
                                        get_user_rank(ranked.users, user_id).level)>>
                           ELSE <<>>
                handled == handle_commands(ranked.users, admins, cmd, user_id,
                                           peer_id, t, vk, http)
            IN [users |-> handled.users, replies |-> rank_up \o handled.replies,
                processed |-> TRUE, success |-> handled.success]

\* what the request of messages.send comes to: a body with "response", a
\* status other than 200 or a body without "response", or an exception
SendOutcomes == {"ok", "refused", "exception"}

\* send_message: True when VK confirms; False, or None from the outer
\* except, otherwise.  No exception leaves it.
send_message(outcome) == outcome = "ok"

\* what the request of messages.send comes to, as send_message tells the
\* cases apart: a body with "response", with "error" or with neither, a body
\* that is no JSON, a status other than 200, or an exception
SendResults ==
    {"response", "error", "unexpected", "not_json", "status", "exception"}

\* The text of an outbound message, written as runs of one character:
\* <<[ch |-> "a", n |-> 4000], [ch |-> "b", n |-> 1]>> is 4000 times a and
\* then one b.  Runs that follow one another have different characters.
Run(ch, n) == [ch |-> ch, n |-> n]

\* len(message)
RECURSIVE TextLen(_)
TextLen(message) ==
    IF message = <<>> THEN 0
    ELSE Head(message).n + TextLen(Tail(message))

\* message[:k]
RECURSIVE Take(_, _)
Take(message, k) ==
    IF message = <<>> \/ k = 0 THEN <<>>
    ELSE IF Head(message).n <= k
    THEN <<Head(message)>> \o Take(Tail(message), k - Head(message).n)
    ELSE <<Run(Head(message).ch, k)>>

max_length == 4000

\* "..."
Marker == <<Run(".", 3)>>

\* the message that send_message hands to messages.send, cutting also a
\* message of exactly max_length characters
cut_message_early(message) ==
    IF TextLen(message) >= max_length
    THEN Take(message, max_length) \o Marker
    ELSE message

\* the message that send_message hands to messages.send
cut_message(message) ==
    IF TextLen(message) > max_length
    THEN Take(message, max_length) \o Marker
    ELSE message

\* the least number of seconds between two sends
send_interval == 3

\* send_message called at current_time: [sent_at, _last_send_time, ret];
\* it sleeps until send_interval seconds have passed since _last_send_time,
\* makes the request, and notes the time when the answer has status 200
send_message_at(last_time, current_time, result) ==
    LET elapsed == current_time - last_time
        sent_at == IF elapsed < send_interval
                   THEN current_time + (send_interval - elapsed)
                   ELSE current_time
    IN [sent_at |-> sent_at,
        _last_send_time |-> IF result \in {"status", "exception"}
                            THEN last_time ELSE sent_at,
        ret |-> result = "response"]

\* process_message when every messages.send of the message comes to the same
\* outcome: an undelivered message that makes the processing stop and the row
\* of the sender go back to what it was
process_message_rolling_back(us, admins, cmd, user_id, peer_id, t, vk, http, send) ==
    LET r == process_message(us, admins, cmd, user_id, peer_id, t, vk, http)
        delivered == IF send_message(send) THEN Len(r.replies) ELSE 0
    IN IF delivered < Len(r.replies)
       THEN [users |-> us, replies |-> r.replies, processed |-> FALSE,
             success |-> r.success, delivered |-> delivered]
       ELSE [users |-> r.users, replies |-> r.replies, processed |-> r.processed,
             success |-> r.success, delivered |-> delivered]

\* process_message when every messages.send of the message comes to the same
\* outcome: the callers of send_message do not read what it returns
process_message_sending(us, admins, cmd, user_id, peer_id, t, vk, http, send) ==
    LET r == process_message(us, admins, cmd, user_id, peer_id, t, vk, http)
        delivered == IF send_message(send) THEN Len(r.replies) ELSE 0
    IN [users |-> r.users, replies |-> r.replies, processed |-> r.processed,
        success |-> r.success, delivered |-> delivered]

----------------------------------------------------------------------------
(* async_vk_bot.py: the flood control and the handling of new messages *)

flood_limit == 3

\* a flood control that notes the time of a refused message too
check_flood_control_noting(last_message, user_id, current_time) ==
    [user_last_message |-> [last_message EXCEPT ![user_id] = current_time],
     ret |-> ~(/\ last_message[user_id] # NULL
               /\ current_time - last_message[user_id] < flood_limit)]

\* _check_flood_control / VKBot.check_flood_control at time current_time
check_flood_control(last_message, user_id, current_time) ==
    IF /\ last_message[user_id] # NULL
       /\ current_time - last_message[user_id] < flood_limit
    THEN [user_last_message |-> last_message, ret |-> FALSE]
    ELSE [user_last_message |-> [last_message EXCEPT ![user_id] = current_time],
          ret |-> TRUE]

\* a cleanup that takes every entry for an old one
background_cleanup_all(last_message, current_time) ==
    [u \in UserIds |-> NULL]

\* one round of _background_cleanup: the entries older than an hour go
background_cleanup(last_message, current_time) ==
    [u \in UserIds |->
        IF last_message[u] # NULL /\ current_time - last_message[u] > 3600
        THEN NULL
        ELSE last_message[u]]

HandlerIdle == [pc |-> "idle"]

----------------------------------------------------------------------------
(* moderation.py and ai_system.py: the content check and the resolution of
   an AI response over the external services.  A message is the set of
   keyword lists that its lower-cased text hits.  A text is known by the
   service and the model it comes from and by the length that is left of it
   after strip(): 0 for a blank text, 1 for one character, 2 for more. *)

KeywordLists == {"inappropriate_words", "hate_speech", "spam_patterns"}

\* the word lists of _get_local_response that the model tells apart
LocalWordLists == {"greetings"}

Messages == SUBSET (KeywordLists \cup LocalWordLists)

Text(provider, model, len) == [provider |-> provider, model |-> model, len |-> len]

None == Text("", 0, -1)

\* an exception that leaves the called method
Raised == Text("", 0, -2)

ContentModeration_check_content(message) ==
    IF "inappropriate_words" \in message
    THEN [allowed |-> FALSE, reason |-> "inappropriate_language",
          response |-> Text("moderation", 1, 2)]
    ELSE IF "hate_speech" \in message
    THEN [allowed |-> FALSE, reason |-> "hate_speech",
          response |-> Text("moderation", 2, 2)]
    ELSE IF "spam_patterns" \in message
    THEN [allowed |-> FALSE, reason |-> "spam",
          response |-> Text("moderation", 3, 2)]
    ELSE [allowed |-> TRUE, reason |-> "", response |-> None]

\* A text is a sequence of characters.  The letters that the modelled texts
\* are written in, capital and small, position by position; each Cyrillic
\* letter is written as a Latin one (q for the soft sign, w for yu, y for ya):
UpperCase == <<"G", "E", "J", "U", "B", "Q", "W", "A", "K", "C", "I", "Y", "Z">>

LowerCase == <<"g", "e", "j", "u", "b", "q", "w", "a", "k", "c", "i", "y", "z">>

\* str.lower() without the conversion
lower_unchanged(text) ==
    text

\* str.lower()
lower(text) ==
    [i \in DOMAIN text |->
        IF \E k \in DOMAIN UpperCase : UpperCase[k] = text[i]
        THEN LowerCase[CHOOSE k \in DOMAIN UpperCase : UpperCase[k] = text[i]]
        ELSE text[i]]

\* "word in text"
Contains(text, word) ==
    \E k \in 0..(Len(text) - Len(word)) :
        \A i \in 1..Len(word) : text[k + i] = word[i]

\* the shortest word of each of the three lists of ContentModeration, in
\* the letters above
Keywords ==
    [inappropriate_words |-> {<<"g", "e", "j">>},
     hate_speech |-> {<<"u", "b", "q", "w">>},
     spam_patterns |-> {<<"a", "k", "c", "i", "y">>}]

\* the lists with a word that the lower-cased text contains
Hits(text) ==
    {l \in KeywordLists : \E word \in Keywords[l] : Contains(lower(text), word)}

\* ContentModeration.check_content on a text
check_content(text) ==
    ContentModeration_check_content(Hits(text))

\* the texts given to check_content: up to MaxPieces of these pieces in a row
Pieces ==
    {<<"g", "e", "j">>, <<"G", "e", "J">>, <<"g", "e">>, <<"j">>,
     <<"u", "b", "q", "w">>, <<"U", "B", "Q", "W">>,
     <<"a", "k", "c", "i", "y">>, <<"A", "k", "c", "i", "y">>,
     <<"z">>, <<" ">>}

RECURSIVE Flatten(_)
Flatten(pieces) ==
    IF pieces = <<>> THEN <<>>
    ELSE Head(pieces) \o Flatten(Tail(pieces))

Texts ==
    {Flatten(pieces) : pieces \in UNION {[1..n -> Pieces] : n \in 0..MaxPieces}}

Unchecked == [called |-> FALSE, message |-> <<>>, result |-> check_content(<<>>)]

\* the texts of inbound messages: one piece, or nothing
MessageTexts == {<<>>} \cup Pieces

\* The messages that handle_commands reads as a question to the AI
\* ("ai": the text follows the command word) and those it reads as no
\* command at all.
TextKinds == {"ai", "other"}

\* process_message for a message of these kinds: the registration, the award
\* and the rank update run first; the branch of the AI command in
\* handle_commands then sends what get_ai_response returns, which is the
\* response of check_content when the text is refused.
process_text_message(us, admins, kind, text, user_id, peer_id, t) ==
    LET cmd == [kind |-> "other", target |-> 0,
                minutes |-> CHOOSE m \in MuteMinutes : TRUE]
        r == process_message(us, admins, cmd, user_id, peer_id, t, FALSE, "ok")
        moderation_result == check_content(text)
    IN IF kind = "ai" /\ r.processed
       THEN [r EXCEPT !.replies =
                @ \o <<Reply(IF moderation_result.allowed
                             THEN "ai_response" ELSE moderation_result.reason,
                             0)>>]
       ELSE r

----------------------------------------------------------------------------
(* vk_bot_v6_clean.py and async_vk_bot.py: the dispatch on the text of a
   message.  Cyrillic words are written in Latin letters (kik, mut, ban,
   varn, razmut, razban, ii, privet); of the words of an exact rule the
   English one is kept. *)

Whitespace == {" "}

\* text.startswith(prefix)
startswith(text, prefix) ==
    /\ Len(prefix) <= Len(text)
    /\ \A i \in 1..Len(prefix) : text[i] = prefix[i]

RECURSIVE lstrip(_)
lstrip(text) ==
    IF text # <<>> /\ Head(text) \in Whitespace THEN lstrip(Tail(text))
    ELSE text

RECURSIVE rstrip(_)
rstrip(text) ==
    IF text # <<>> /\ text[Len(text)] \in Whitespace
    THEN rstrip(SubSeq(text, 1, Len(text) - 1))
    ELSE text

\* text.strip()
strip(text) == rstrip(lstrip(text))

\* text.split(): the words between the runs of blanks
RECURSIVE split(_)
split(text) ==
    LET rest == lstrip(text)
    IN IF rest = <<>> THEN <<>>
       ELSE LET ends == {k \in 1..Len(rest) : rest[k] \in Whitespace}
                n == IF ends = {} THEN Len(rest) + 1
                     ELSE CHOOSE k \in ends : \A j \in ends : k <= j
            IN <<SubSeq(rest, 1, n - 1)>> \o split(SubSeq(rest, n, Len(rest)))

Digits == <<"0", "1", "2", "3", "4", "5", "6", "7", "8", "9">>

\* whether int(text) returns: the texts of the model have digits, letters and
\* marks but no sign before the digits
is_number(text) ==
    /\ text # <<>>
    /\ \A i \in DOMAIN text : \E d \in DOMAIN Digits : Digits[d] = text[i]

\* int(text) of such a text
RECURSIVE int(_)
int(text) ==
    IF text = <<>> THEN 0
    ELSE 10 * int(SubSeq(text, 1, Len(text) - 1))
         + (CHOOSE d \in DOMAIN Digits : Digits[d] = text[Len(text)]) - 1

\* a _parse_user_mention that falls back on an id when it finds no number
_parse_user_mention_defaulting(mention) ==
    LET unmarked == IF startswith(mention, <<"@">>) THEN Tail(mention)
                    ELSE mention
        bare == IF startswith(unmarked, <<"[", "i", "d">>)
                THEN SubSeq(unmarked, 4, Len(unmarked))
                ELSE unmarked
        bars == {k \in DOMAIN bare : bare[k] = "|"}
        first == IF bars = {} THEN bare
                 ELSE SubSeq(bare, 1, (CHOOSE k \in bars : \A j \in bars : k <= j) - 1)
    IN IF is_number(first) THEN int(first) ELSE MentionId

\* _parse_user_mention: the id, or None (NULL)
_parse_user_mention(mention) ==
    LET unmarked == IF startswith(mention, <<"@">>) THEN Tail(mention)
                    ELSE mention
        bare == IF startswith(unmarked, <<"[", "i", "d">>)
                THEN SubSeq(unmarked, 4, Len(unmarked))
                ELSE unmarked
        bars == {k \in DOMAIN bare : bare[k] = "|"}
        first == IF bars = {} THEN bare
                 ELSE SubSeq(bare, 1, (CHOOSE k \in bars : \A j \in bars : k <= j) - 1)
    IN IF is_number(first) THEN int(first) ELSE NULL

\* The branches of the if and elif chain of handle_commands, first to last:
\* message_lower in exact, or message_lower.startswith(prefix) and
\* len(text) > longer, or any(word in message_lower for word in words)
Rules ==
    <<[name |-> "test", exact |-> {<<"t", "e", "s", "t">>}, prefix |-> <<>>, longer |-> 0,
      words |-> {}],
     [name |-> "help", exact |-> {<<"h", "e", "l", "p">>}, prefix |-> <<>>, longer |-> 0,
      words |-> {}],
     [name |-> "ai", exact |-> {}, prefix |-> <<"i", "i", " ">>, longer |-> 3,
      words |-> {}],
     [name |-> "joke", exact |-> {<<"j", "o", "k", "e">>}, prefix |-> <<>>, longer |-> 0,
      words |-> {}],
     [name |-> "story", exact |-> {<<"s", "t", "o", "r", "y">>}, prefix |-> <<>>, longer |-> 0,
      words |-> {}],
     [name |-> "compliment", exact |-> {<<"c", "o", "m", "p", "l", "i", "m", "e", "n", "t">>}, prefix |-> <<>>, longer |-> 0,
      words |-> {}],
     [name |-> "time", exact |-> {<<"t", "i", "m", "e">>}, prefix |-> <<>>, longer |-> 0,
      words |-> {}],
     [name |-> "how_are_you", exact |-> {<<"h", "o", "w", " ", "a", "r", "e", " ", "y", "o", "u">>}, prefix |-> <<>>, longer |-> 0,
      words |-> {}],
     [name |-> "about_you", exact |-> {<<"a", "b", "o", "u", "t", " ", "y", "o", "u">>}, prefix |-> <<>>, longer |-> 0,
      words |-> {}],
     [name |-> "rank", exact |-> {<<"r", "a", "n", "k">>}, prefix |-> <<>>, longer |-> 0,
      words |-> {}],
     [name |-> "top", exact |-> {<<"t", "o", "p">>}, prefix |-> <<>>, longer |-> 0,
      words |-> {}],
     [name |-> "status", exact |-> {<<"s", "t", "a", "t", "u", "s">>}, prefix |-> <<>>, longer |-> 0,
      words |-> {}],
     [name |-> "ranks", exact |-> {<<"r", "a", "n", "k", "s">>}, prefix |-> <<>>, longer |-> 0,
      words |-> {}],
     [name |-> "quiz", exact |-> {<<"q", "u", "i", "z">>}, prefix |-> <<>>, longer |-> 0,
      words |-> {}],
     [name |-> "guess", exact |-> {<<"g", "u", "e", "s", "s">>}, prefix |-> <<>>, longer |-> 0,
      words |-> {}],
     [name |-> "coin", exact |-> {<<"c", "o", "i", "n">>}, prefix |-> <<>>, longer |-> 0,
      words |-> {}],
     [name |-> "stats", exact |-> {<<"s", "t", "a", "t", "s">>}, prefix |-> <<>>, longer |-> 0,
      words |-> {}],
     [name |-> "kick", exact |-> {}, prefix |-> <<"k", "i", "k", " ">>, longer |-> 4,
      words |-> {}],
     [name |-> "mute", exact |-> {}, prefix |-> <<"m", "u", "t", " ">>, longer |-> 4,
      words |-> {}],
     [name |-> "ban", exact |-> {}, prefix |-> <<"b", "a", "n", " ">>, longer |-> 4,
      words |-> {}],
     [name |-> "warn", exact |-> {}, prefix |-> <<"v", "a", "r", "n", " ">>, longer |-> 5,
      words |-> {}],
     [name |-> "unmute", exact |-> {}, prefix |-> <<"r", "a", "z", "m", "u", "t", " ">>, longer |-> 7,
      words |-> {}],
     [name |-> "unban", exact |-> {}, prefix |-> <<"r", "a", "z", "b", "a", "n", " ">>, longer |-> 7,
      words |-> {}],
     [name |-> "admin", exact |-> {<<"a", "d", "m", "i", "n">>}, prefix |-> <<>>, longer |-> 0,
      words |-> {}],
     [name |-> "greeting", exact |-> {}, prefix |-> <<>>, longer |-> 0,
      words |-> {<<"p", "r", "i", "v", "e", "t">>, <<"h", "e", "l", "l", "o">>, <<"h", "i">>}]>>

\* whether the condition of a branch holds for the text
rule_matches(r, text, message_lower) ==
    \/ message_lower \in r.exact
    \/ /\ r.prefix # <<>>
       /\ startswith(message_lower, r.prefix)
       /\ Len(text) > r.longer
    \/ \E word \in r.words : Contains(message_lower, word)

\* the branches whose condition holds
Matching(rules, text, message_lower) ==
    {i \in DOMAIN rules : rule_matches(rules[i], text, message_lower)}

\* a chain that takes the last branch whose condition holds
first_match_last(rules, text, message_lower) ==
    LET hit == Matching(rules, text, message_lower)
    IN IF hit = {} THEN 0 ELSE CHOOSE i \in hit : \A j \in hit : i >= j

\* the branch that the chain takes: the first one whose condition holds, or
\* 0 for none
first_match(rules, text, message_lower) ==
    LET hit == Matching(rules, text, message_lower)
    IN IF hit = {} THEN 0 ELSE CHOOSE i \in hit : \A j \in hit : i <= j

\* the parts that the branch of a command needs at least
parts_needed(kind) == IF kind = "mute" THEN 3 ELSE 2

\* handle_commands on a text: [users, replies, success, rule]; rule is the
\* name of the branch taken, "" for none
handle_commands_text(us, admins, text, user_id, peer_id, t, vk, http) ==
    LET message_lower == strip(lower(text))
        i == first_match(Rules, text, message_lower)
        rule == IF i = 0 THEN "" ELSE Rules[i].name
        user_perms == get_user_permissions(us, admins, user_id, peer_id, vk)
        parts == split(text)
        target_user == IF Len(parts) >= 2 THEN _parse_user_mention(parts[2])
                       ELSE NULL
        cmd == [kind |-> rule,
                target |-> IF target_user = NULL THEN 0 ELSE target_user,
                minutes |-> IF Len(parts) >= 3 /\ is_number(parts[3])
                            THEN int(parts[3]) ELSE 0]
        say(reply) == [users |-> us, replies |-> <<Reply(reply, 0)>>,
                       success |-> FALSE, rule |-> rule]
        run(c) == LET r == handle_commands(us, admins, c, user_id, peer_id, t,
                                           vk, http)
                  IN [users |-> r.users, replies |-> r.replies,
                      success |-> r.success, rule |-> rule]
    IN IF rule = ""
       THEN [users |-> us, replies |-> <<>>, success |-> FALSE, rule |-> rule]
       ELSE IF rule \in ModerationKinds
       THEN IF rule \notin user_perms.permissions THEN run(cmd)
            ELSE IF Len(parts) < parts_needed(rule) THEN say("usage")
            ELSE IF rule = "mute" /\ ~is_number(parts[3])
            THEN say("duration_not_number")
            ELSE run(cmd)
       ELSE IF rule \in {"unmute", "unban"}
       THEN IF Len(parts) < 2 THEN say("usage") ELSE run(cmd)
       ELSE IF rule = "greeting" THEN run(cmd)
       ELSE say(rule)

\* The branches of the chain of AsyncVKBot._process_message
AsyncRules ==
    <<[name |-> "help", exact |-> {<<"h", "e", "l", "p">>}, prefix |-> <<>>, longer |-> 0,
      words |-> {}],
     [name |-> "test", exact |-> {<<"t", "e", "s", "t">>}, prefix |-> <<>>, longer |-> 0,
      words |-> {}],
     [name |-> "ai", exact |-> {}, prefix |-> <<"i", "i", " ">>, longer |-> 3,
      words |-> {}],
     [name |-> "greeting", exact |-> {}, prefix |-> <<>>, longer |-> 0,
      words |-> {<<"p", "r", "i", "v", "e", "t">>, <<"h", "e", "l", "l", "o">>, <<"h", "i">>}]>>

\* the least length above which _handle_unknown_message asks the AI
unknown_length == 10

\* AsyncVKBot._process_message on a text: [replies, rule]
async_process_message(text) ==
    LET message_lower == lower(text)
        i == first_match(AsyncRules, text, message_lower)
    IN IF i # 0
       THEN [replies |-> <<Reply(AsyncRules[i].name, 0)>>,
             rule |-> AsyncRules[i].name]
       ELSE IF Len(text) > unknown_length
       THEN [replies |-> <<Reply("ai_response", 0)>>, rule |-> ""]
       ELSE [replies |-> <<>>, rule |-> ""]

\* the services in the order in which get_ai_response tries them
Providers == <<"openrouter", "groq", "openai", "huggingface">>

ProviderSet == {Providers[i] : i \in DOMAIN Providers}

free_models ==
    <<"mistral-7b-instruct", "llama-3.2-3b-instruct", "phi-3-mini-128k-instruct",
      "gemini-flash-1.5", "llama-3.1-8b-instruct">>

\* what one request to a service comes to: a text of more than one
\* character, of one character or blank, a body without a completion, a
\* status other than 200, or an exception (a timeout is one)
Outcomes == {"text", "short", "blank", "nochoices", "status", "exception"}

Content(provider, model, outcome) ==
    Text(provider, model,
         CASE outcome = "text" -> 2 [] outcome = "short" -> 1 [] OTHER -> 0)

\* _call_groq without its try and except: the exception leaves the method
_call_groq_uncaught(outcome) ==
    IF outcome \in {"text", "short", "blank"}
    THEN Content("groq", 1, outcome)
    ELSE IF outcome = "exception" THEN Raised
    ELSE None

\* the official client raises on a bad status and choices[0] raises on an
\* empty list: the method's except returns None for all of them
_call_groq(outcome) ==
    IF outcome \in {"text", "short", "blank"}
    THEN Content("groq", 1, outcome)
    ELSE None

\* _call_openai without its try and except
_call_openai_uncaught(outcome) ==
    IF outcome \in {"text", "short", "blank"}
    THEN Content("openai", 1, outcome)
    ELSE IF outcome \in {"status", "exception"} THEN Raised
    ELSE None

_call_openai(outcome) ==
    IF outcome \in {"text", "short", "blank"}
    THEN Content("openai", 1, outcome)
    ELSE None

\* one pass of the loop over free_models: the cleaned text when it has more
\* than one character, None for "continue"
openrouter_model(model, outcome) ==
    IF outcome \in {"text", "short", "blank"}
          /\ Content("openrouter", model, outcome).len > 1
    THEN Content("openrouter", model, outcome)
    ELSE None

_call_huggingface(outcome) ==
    IF outcome \in {"text", "short", "blank"}
          /\ Content("huggingface", 1, outcome).len > 0
    THEN Content("huggingface", 1, outcome)
    ELSE None

\* a test that asks for more than one character, as line 252 does
Accepted_long(response) ==
    /\ response # None
    /\ response.len > 1

\* "if response and response.strip()"
Accepted(response) ==
    /\ response # None
    /\ response.len > 0

\* the local answers: a greeting for a message with a greeting word, one of
\* the default answers otherwise (the choice within a list is random)
_get_local_response(message) ==
    IF "greetings" \in message
    THEN Text("_get_local_response", 1, 2)
    ELSE Text("_get_local_response", 4, 2)

UnavailableMessage == Text("get_ai_response", 83, 2)

CriticalErrorMessage == Text("get_ai_response", 87, 2)

\* the configured services that get_ai_response tries after position i
RECURSIVE NextProvider(_, _)
NextProvider(config, i) ==
    IF i >= Len(Providers) THEN "done"
    ELSE IF Providers[i + 1] \in config THEN Providers[i + 1]
    ELSE NextProvider(config, i + 1)

ProviderIndex(provider) ==
    CHOOSE i \in DOMAIN Providers : Providers[i] = provider

\* get_ai_response after a call of a service method returned response: the
\* return of an accepted response, the except clause for an exception, the
\* next configured service, or the message of line 83 when none is left
AfterCall(a, provider, outcome, response) ==
    LET log == Append(a.log, [provider |-> provider, outcome |-> outcome,
                              response |-> response])
        next == NextProvider(a.config, ProviderIndex(provider))
    IN  IF response = Raised
        THEN [a EXCEPT !.pc = "done", !.model = 0, !.log = log,
                       !.result = CriticalErrorMessage]
        ELSE IF Accepted(response)
        THEN [a EXCEPT !.pc = "done", !.model = 0, !.log = log,
                       !.result = response]
        ELSE IF next = "done"
        THEN [a EXCEPT !.pc = "done", !.model = 0, !.log = log,
                       !.result = UnavailableMessage]
        ELSE [a EXCEPT !.pc = next, !.log = log,
                       !.model = IF next = "openrouter" THEN 1 ELSE 0]

\* get_ai_response without the content check of lines 45 to 47
get_ai_response_unchecked(a, message) ==
    LET first == NextProvider(a.config, 0)
        b == [a EXCEPT !.message = message, !.log = <<>>, !.model = 0]
    IN  IF first = "done"
        THEN [b EXCEPT !.pc = "done", !.result = UnavailableMessage]
        ELSE [b EXCEPT !.pc = first, !.result = None,
                       !.model = IF first = "openrouter" THEN 1 ELSE 0]

\* get_ai_response up to its first call of a service
get_ai_response(a, message) ==
    LET moderation_result == ContentModeration_check_content(message)
        first == NextProvider(a.config, 0)
        b == [a EXCEPT !.message = message, !.log = <<>>, !.model = 0]
    IN  IF ~moderation_result.allowed
        THEN [b EXCEPT !.pc = "done", !.result = moderation_result.response]
        ELSE IF first = "done"
        THEN [b EXCEPT !.pc = "done", !.result = UnavailableMessage]
        ELSE [b EXCEPT !.pc = first, !.result = None,
                       !.model = IF first = "openrouter" THEN 1 ELSE 0]

AIIdle ==
    [pc |-> "idle", config |-> {}, message |-> {}, model |-> 0, log |-> <<>>,
     result |-> None]

----------------------------------------------------------------------------
(* error_handler.py *)

ErrorSeverity == {"low", "medium", "high", "critical"}

ErrorCategory ==
    {"vk_api", "network", "database", "ai_system", "validation", "unknown"}

\* type(error).__name__ of the exceptions that callers hand over
ErrorTypes == {"ValueError", "DatabaseError"}

\* _setup_retry_strategies: the categories that have a strategy; each of
\* _retry_network_operation, _retry_vk_api_operation,
\* _retry_database_operation and _retry_ai_operation returns True
retry_strategies ==
    [c \in {"network", "vk_api", "database", "ai_system"} |-> TRUE]

_fallback_handling(category) == TRUE

_handle_critical_error == FALSE

_handle_high_error_stopping(category, retry) ==
    IF retry /\ category \in DOMAIN retry_strategies
    THEN retry_strategies[category]
    ELSE FALSE

_handle_high_error(category, retry) ==
    IF retry /\ category \in DOMAIN retry_strategies
    THEN retry_strategies[category]
    ELSE _fallback_handling(category)

_handle_medium_error(category, retry) ==
    IF retry /\ category \in DOMAIN retry_strategies
    THEN retry_strategies[category]
    ELSE TRUE

_handle_low_error == TRUE

\* f"{category.value}_{type(error).__name__}"
error_key(category, type) == category \o "_" \o type

\* ErrorInfo, by the fields that handle_error reads again
ErrorInfo(type, category, severity) ==
    [error |-> type, category |-> category, severity |-> severity]

\* error_counts.get(error_key, 0)
counts_get(counts, key) == IF key \in DOMAIN counts THEN counts[key] ELSE 0

\* handle_error: [error_history, error_counts, ret]
handle_error(history, counts, type, category, severity, retry) ==
    LET key == error_key(category, type)
    IN [error_history |-> Append(history, ErrorInfo(type, category, severity)),
        error_counts |->
            [k \in DOMAIN counts \cup {key} |->
                IF k = key THEN counts_get(counts, key) + 1 ELSE counts[k]],
        ret |-> IF severity = "critical" THEN _handle_critical_error
                ELSE IF severity = "high" THEN _handle_high_error(category, retry)
                ELSE IF severity = "medium"
                THEN _handle_medium_error(category, retry)
                ELSE _handle_low_error]

\* ErrorHandler.__init__: error_counts = {}
NoCounts == [k \in {} |-> 0]

----------------------------------------------------------------------------
(* The state machine of the store, the moderation actions and the pipeline *)

Obs(op, kind, user, target, ok, processed, vk) ==
    [op |-> op, kind |-> kind, user |-> user, target |-> target, ok |-> ok,
     processed |-> processed, vk |-> vk]

NoStreak == [target |-> 0, n |-> 0]

\* successful warns in a row that another user issues to one target, counted
\* from a target that get_warnings reports as unwarned
NextStreak(us, target, admin, success) ==
    IF ~success \/ admin = target THEN NoStreak
    ELSE IF streak.target = target THEN [target |-> target, n |-> streak.n + 1]
    ELSE IF get_warnings(us, target) = 0 THEN [target |-> target, n |-> 1]
    ELSE NoStreak

WarnAllowed(target) ==
    /\ get_warnings(users, target) < MaxWarnings
    /\ streak.n < MaxWarnings

\* rows that the store operations leave behind: experience with the level
\* update_rank derives from it, no warning, no mute, no ban
StoredRows ==
    {[present |-> TRUE, first_name |-> PipelineName, join_date |-> 0,
      experience |-> e, rank_level |-> level_for(e, 10),
      warnings |-> 0, banned |-> FALSE, mute_until |-> NULL] : e \in InitExps}

\* The bot starts on the database file of earlier runs.
Init ==
    /\ connected = TRUE
    /\ error_history = <<>>
    /\ error_counts = NoCounts
    /\ error_result = TRUE
    /\ last_send_time = 0
    /\ attempts = <<>>
    /\ awards = NoAwards
    /\ users \in [UserIds -> {AbsentRow} \cup StoredRows]
    /\ chat_admins = {}
    /\ now = 0
    /\ last = Obs("init", "", 0, 0, FALSE, FALSE, FALSE)
    /\ replies = <<>>
    /\ streak = NoStreak
    /\ calls = 0
    /\ ai = AIIdle
    /\ blocked_count = 0
    /\ checked = Unchecked
    /\ user_last_message = [u \in UserIds |-> NULL]
    /\ inbox = <<>>
    /\ handler = HandlerIdle
    /\ events = <<>>

\* A new database file: init_database creates the two tables, empty.
InitStore ==
    /\ connected = TRUE
    /\ error_history = <<>>
    /\ error_counts = NoCounts
    /\ error_result = TRUE
    /\ last_send_time = 0
    /\ attempts = <<>>
    /\ awards = NoAwards
    /\ users = [u \in UserIds |-> AbsentRow]
    /\ chat_admins = {}
    /\ now = 0
    /\ last = Obs("init", "", 0, 0, FALSE, FALSE, FALSE)
    /\ replies = <<>>
    /\ streak = NoStreak
    /\ calls = 0
    /\ ai = AIIdle
    /\ blocked_count = 0
    /\ checked = Unchecked
    /\ user_last_message = [u \in UserIds |-> NULL]
    /\ inbox = <<>>
    /\ handler = HandlerIdle
    /\ events = <<>>

\* DatabaseManager.create_or_update_user called on its own
CreateOrUpdateUser(user_id, first_name) ==
    /\ users' = create_or_update_user(users, user_id, first_name, now)
    /\ last' = Obs("create_or_update_user", first_name, user_id, 0, connected,
                   FALSE, FALSE)
    /\ replies' = <<>>
    /\ streak' = NoStreak
    /\ UNCHANGED <<awards, connected, errorVars, sendVars, chat_admins, now, calls, ai, filterVars, floodVars>>

\* DatabaseManager.add_experience called on its own
AddExperience(user_id, exp) ==
    /\ users[user_id].experience + exp <= MaxExp
    /\ users' = IF connected THEN add_experience(users, user_id, exp) ELSE users
    /\ last' = Obs("add_experience", "", user_id, 0, TRUE, FALSE, FALSE)
    /\ replies' = <<>>
    /\ streak' = NoStreak
    /\ UNCHANGED <<awards, connected, errorVars, sendVars, chat_admins, now, calls, ai, filterVars, floodVars>>

\* DatabaseManager.update_rank called on its own
UpdateRank(user_id) ==
    /\ LET r == update_rank(Rows(users), user_id)
       IN /\ users' = IF connected THEN r.users ELSE users
          /\ last' = Obs("update_rank",
                         IF last.op = "update_rank" /\ last.user = user_id
                         THEN "repeated" ELSE "",
                         user_id, 0, r.ret, FALSE, FALSE)
    /\ replies' = <<>>
    /\ streak' = NoStreak
    /\ UNCHANGED <<awards, connected, errorVars, sendVars, chat_admins, now, calls, ai, filterVars, floodVars>>

\* DatabaseManager.set_admin: a bot-local grant for the conversation
SetAdmin(user_id, peer_id) ==
    /\ ~is_admin(Admins(chat_admins), user_id, peer_id - GroupBase)
    /\ chat_admins' = set_admin(chat_admins, user_id, peer_id - GroupBase)
    /\ last' = Obs("set_admin", "", user_id, 0, TRUE, FALSE, FALSE)
    /\ replies' = <<>>
    /\ streak' = NoStreak
    /\ UNCHANGED <<awards, connected, errorVars, sendVars, users, now, calls, ai, filterVars, floodVars>>

\* ModerationSystem.kick_user / ban_user / mute_user / warn_user called on
\* their own
ModerationAction(kind, peer_id, user_id, admin_id, minutes, http) ==
    /\ kind = "warn" => WarnAllowed(user_id)
    /\ calls < MaxCalls
    /\ calls' = calls + 1
    /\ LET r == CASE kind = "kick" ->
                      kick_user(Rows(users), Admins(chat_admins), peer_id, user_id, admin_id, http)
                  [] kind = "ban" ->
                      ban_user(Rows(users), Admins(chat_admins), peer_id, user_id, admin_id, http)
                  [] kind = "mute" ->
                      moderation_mute_user(Rows(users), Admins(chat_admins), peer_id, user_id,
                                           admin_id, minutes, now)
                  [] OTHER ->
                      warn_user(Rows(users), Admins(chat_admins), peer_id, user_id, admin_id, now)
       IN /\ users' = IF connected THEN r.users ELSE users
          /\ last' = Obs(kind, kind, admin_id, user_id, r.success, FALSE, FALSE)
          /\ streak' = IF kind = "warn"
                       THEN NextStreak(users, user_id, admin_id, r.success)
                       ELSE NoStreak
    /\ replies' = <<>>
    /\ UNCHANGED <<awards, connected, errorVars, sendVars, chat_admins, now, ai, filterVars, floodVars>>

\* VKBotClean.process_message for one message_new update
ProcessMessage(user_id, peer_id, cmd, vk, http) ==
    /\ (cmd.kind = "warn" /\ cmd.target # 0) => WarnAllowed(cmd.target)
    /\ LET r == process_message(Rows(users), Admins(chat_admins), cmd, user_id,
                                peer_id, now, vk, http)
       IN /\ users' = IF connected THEN r.users ELSE users
          /\ replies' = r.replies
          /\ last' = Obs("message", cmd.kind, user_id, cmd.target, r.success,
                         r.processed, vk)
          /\ streak' = IF cmd.kind = "warn" /\ cmd.target # 0
                       THEN NextStreak(users, cmd.target, user_id, r.success)
                       ELSE NoStreak
    /\ UNCHANGED <<awards, connected, errorVars, sendVars, chat_admins, now, calls, ai, filterVars, floodVars>>

\* time passes
Tick ==
    /\ now < MaxTicks * TickStep
    /\ now' = now + TickStep
    /\ last' = Obs("tick", "", 0, 0, FALSE, FALSE, FALSE)
    /\ replies' = <<>>
    /\ streak' = NoStreak
    /\ UNCHANGED <<awards, connected, errorVars, sendVars, users, chat_admins, calls, ai, filterVars, floodVars>>

\* the inputs that a command of the kind reads; the others are fixed
MessageInputs ==
    {i \in [cmd : Commands, vk : BOOLEAN, http : HttpOutcomes] :
        /\ i.cmd.kind \in {"greeting", "other"} => i.cmd.target = 0
        /\ i.cmd.kind \notin ModerationKinds => ~i.vk
        /\ (i.cmd.kind \notin {"kick", "ban"} \/ i.cmd.target = 0) => i.http = "ok"}

Next ==
    \/ \E u \in UserIds, p \in Peers, i \in MessageInputs :
            ProcessMessage(u, p, i.cmd, i.vk, i.http)
    \/ \E u \in UserIds, p \in Peers : SetAdmin(u, p)
    \/ Tick

Spec == Init /\ [][Next]_vars

NextStore ==
    \/ \E u \in UserIds : CreateOrUpdateUser(u, PipelineName)
    \/ \E u \in UserIds, exp \in ExpAmounts : AddExperience(u, exp)
    \/ \E u \in UserIds : UpdateRank(u)
    \/ \E u \in UserIds, p \in Peers : SetAdmin(u, p)
    \/ \E k \in ModerationKinds, p \in Peers, a \in UserIds,
          m \in MuteMinutes, h \in HttpOutcomes :
            /\ k \notin {"kick", "ban"} => h = "ok"
            /\ ModerationAction(k, p, MentionId, a, m, h)

SpecStore == InitStore /\ [][NextStore]_vars

\* The registration of users over time: callers pass the profile's first
\* name, which a user may have changed since the last call.
FirstNames == {"Anna", "Ivan"}

NextUpsert ==
    \/ \E u \in UserIds, name \in FirstNames : CreateOrUpdateUser(u, name)
    \/ \E u \in UserIds, exp \in ExpAmounts : AddExperience(u, exp)
    \/ \E u \in UserIds : UpdateRank(u)
    \/ Tick

SpecUpsert == InitStore /\ [][NextUpsert]_vars

\* DatabaseManager.mute_user called on its own
MuteUser(user_id, duration_minutes) ==
    /\ users' = IF connected
                THEN db_mute_user(users, user_id, duration_minutes, now)
                ELSE users
    /\ last' = Obs("mute_user", "", user_id, 0, connected, FALSE, FALSE)
    /\ replies' = <<>>
    /\ streak' = NoStreak
    /\ UNCHANGED <<awards, connected, errorVars, sendVars, chat_admins, now, calls, ai, filterVars, floodVars>>

\* DatabaseManager.is_muted called on its own; kind tells whether the read
\* took the branch that calls unmute_user
IsMuted(user_id) ==
    LET r == is_muted(Rows(users), user_id, now)
    IN /\ users' = IF connected THEN r.users ELSE users
       /\ last' = Obs("is_muted", IF r.users # users THEN "unmuted" ELSE "",
                      user_id, 0, r.ret, FALSE, FALSE)
       /\ replies' = <<>>
       /\ streak' = NoStreak
       /\ UNCHANGED <<awards, connected, errorVars, sendVars, chat_admins, now, calls, ai, filterVars, floodVars>>

\* the clock reaches a mute deadline, or the second after it
WaitSteps == {m * 60 + e : m \in MuteMinutes, e \in {0, 1}}

Wait(d) ==
    /\ now + d <= MaxTicks * TickStep
    /\ now' = now + d
    /\ last' = Obs("wait", "", 0, 0, FALSE, FALSE, FALSE)
    /\ replies' = <<>>
    /\ streak' = NoStreak
    /\ UNCHANGED <<awards, connected, errorVars, sendVars, users, chat_admins, calls, ai, filterVars, floodVars>>

NextMute ==
    \/ \E u \in UserIds : CreateOrUpdateUser(u, PipelineName)
    \/ \E u \in UserIds, m \in MuteMinutes : MuteUser(u, m)
    \/ \E u \in UserIds : IsMuted(u)
    \/ \E d \in WaitSteps : Wait(d)

SpecMute == InitStore /\ [][NextMute]_vars

\* The database file of earlier runs cannot be opened (a path that does not
\* exist, a locked file): connect raises in every method.
InitOutage ==
    /\ connected = FALSE
    /\ error_history = <<>>
    /\ error_counts = NoCounts
    /\ error_result = TRUE
    /\ last_send_time = 0
    /\ attempts = <<>>
    /\ awards = NoAwards
    /\ users \in [UserIds -> {AbsentRow} \cup StoredRows]
    /\ chat_admins \in SUBSET {<<u, p - GroupBase>> : u \in {1}, p \in Peers}
    /\ now = 0
    /\ last = Obs("init", "", 0, 0, FALSE, FALSE, FALSE)
    /\ replies = <<>>
    /\ streak = NoStreak
    /\ calls = 0
    /\ ai = AIIdle
    /\ blocked_count = 0
    /\ checked = Unchecked
    /\ user_last_message = [u \in UserIds |-> NULL]
    /\ inbox = <<>>
    /\ handler = HandlerIdle
    /\ events = <<>>

NextOutage ==
    \/ \E u \in UserIds : CreateOrUpdateUser(u, PipelineName)
    \/ \E u \in UserIds, exp \in ExpAmounts : AddExperience(u, exp)
    \/ \E u \in UserIds : UpdateRank(u)
    \/ \E u \in UserIds, p \in Peers : SetAdmin(u, p)
    \/ \E u \in UserIds, m \in MuteMinutes : MuteUser(u, m)
    \/ \E u \in UserIds : IsMuted(u)
    \/ \E u \in UserIds, p \in Peers, i \in MessageInputs :
            ProcessMessage(u, p, i.cmd, i.vk, i.http)
    \/ Tick

SpecOutage == InitOutage /\ [][NextOutage]_vars

\* VKBotClean.process_message for a message with a text; checked tells the
\* text and whether check_content was called on it
ProcessTextMessage(user_id, peer_id, kind, text) ==
    LET r == process_text_message(Rows(users), Admins(chat_admins), kind, text,
                                  user_id, peer_id, now)
        called == kind = "ai" /\ r.processed
        refused == called /\ ~check_content(text).allowed
    IN /\ refused => blocked_count < MaxBlocked
       /\ users' = IF connected THEN r.users ELSE users
       /\ replies' = r.replies
       /\ last' = Obs("message", kind, user_id, 0, r.success, r.processed, FALSE)
       /\ streak' = NoStreak
       /\ checked' = [called |-> called, message |-> text,
                      result |-> IF called THEN check_content(text)
                                 ELSE Unchecked.result]
       /\ blocked_count' = IF refused THEN blocked_count + 1 ELSE blocked_count
       /\ UNCHANGED <<awards, connected, errorVars, sendVars, chat_admins, now, calls, ai,
                      floodVars>>

NextContent ==
    \E u \in UserIds, p \in Peers, kind \in TextKinds, text \in MessageTexts :
        ProcessTextMessage(u, p, kind, text)

SpecContent == Init /\ [][NextContent]_vars

----------------------------------------------------------------------------
(* The main loops VKBot.run (vk_bot.py) and VKBotClean.run: one message of
   the long poll at a time *)

Bots == {"VKBot", "VKBotClean"}

\* One of the two bots has been started and listens.
InitRun ==
    /\ connected = TRUE
    /\ error_history = <<>>
    /\ error_counts = NoCounts
    /\ error_result = TRUE
    /\ last_send_time = 0
    /\ attempts = <<>>
    /\ awards = NoAwards
    /\ users = [u \in UserIds |-> AbsentRow]
    /\ chat_admins = {}
    /\ now = 0
    /\ last = Obs("init", "", 0, 0, FALSE, FALSE, FALSE)
    /\ replies = <<>>
    /\ streak = NoStreak
    /\ calls = 0
    /\ ai = AIIdle
    /\ blocked_count = 0
    /\ checked = Unchecked
    /\ user_last_message = [u \in UserIds |-> NULL]
    /\ inbox = <<>>
    /\ handler \in {[pc |-> "listen", bot |-> b] : b \in Bots}
    /\ events = <<>>

\* The long poll receives a message of the user; raises tells whether an
\* exception that nothing closer catches is raised while it is processed.
Arrive(user_id, raises) ==
    /\ Len(inbox) < MaxInbox
    /\ Len(inbox) + Len(events) < MaxEvents
    /\ inbox' = Append(inbox, [user |-> user_id, raises |-> raises])
    /\ UNCHANGED <<awards, connected, errorVars, sendVars, users, chat_admins, now, last, replies,
                   streak, calls, ai, filterVars, user_last_message, handler,
                   events>>

\* VKBotClean.run: process_message has its own try/except, which logs the
\* exception and returns; the while loop goes on.
VKBotCleanRun ==
    /\ handler = [pc |-> "listen", bot |-> "VKBotClean"]
    /\ inbox # <<>>
    /\ events' = Append(events, [user |-> Head(inbox).user,
                                 raised |-> Head(inbox).raises,
                                 processed |-> ~Head(inbox).raises])
    /\ inbox' = Tail(inbox)
    /\ UNCHANGED <<awards, connected, errorVars, sendVars, users, chat_admins, now, last, replies,
                   streak, calls, ai, filterVars, user_last_message, handler>>

\* VKBot.run: the body of "for event in self.longpoll.listen()" has no
\* try/except of its own; the one around the whole loop logs the exception
\* and run returns.
VKBotRun ==
    /\ handler = [pc |-> "listen", bot |-> "VKBot"]
    /\ inbox # <<>>
    /\ events' = Append(events, [user |-> Head(inbox).user,
                                 raised |-> Head(inbox).raises,
                                 processed |-> ~Head(inbox).raises])
    /\ inbox' = Tail(inbox)
    /\ handler' = IF Head(inbox).raises
                  THEN [handler EXCEPT !.pc = "stopped"] ELSE handler
    /\ UNCHANGED <<awards, connected, errorVars, sendVars, users, chat_admins, now, last, replies,
                   streak, calls, ai, filterVars, user_last_message>>

NextRun ==
    \/ \E u \in UserIds, raises \in BOOLEAN : Arrive(u, raises)
    \/ VKBotCleanRun
    \/ VKBotRun

SpecRun == InitRun /\ [][NextRun]_vars

----------------------------------------------------------------------------
(* The pipeline and the transport: messages.send may fail *)

\* VKBotClean.process_message for one message_new update; events tells what
\* became of the messages it sent
ProcessAndSend(user_id, peer_id, cmd, vk, http, send) ==
    /\ (cmd.kind = "warn" /\ cmd.target # 0) => WarnAllowed(cmd.target)
    /\ LET r == process_message_sending(Rows(users), Admins(chat_admins), cmd,
                                        user_id, peer_id, now, vk, http, send)
       IN /\ users' = IF connected THEN r.users ELSE users
          /\ replies' = r.replies
          /\ last' = Obs("message", cmd.kind, user_id, cmd.target, r.success,
                         r.processed, vk)
          /\ streak' = IF cmd.kind = "warn" /\ cmd.target # 0
                       THEN NextStreak(users, cmd.target, user_id, r.success)
                       ELSE NoStreak
          /\ events' = <<[cmd |-> cmd, peer |-> peer_id, send |-> send,
                          delivered |-> r.delivered]>>
    /\ UNCHANGED <<awards, connected, errorVars, sendVars, chat_admins, now, calls, ai,
                   filterVars, user_last_message, inbox, handler>>

NextSend ==
    \E u \in UserIds, p \in Peers, i \in MessageInputs, send \in SendOutcomes :
        ProcessAndSend(u, p, i.cmd, i.vk, i.http, send)

SpecSend == Init /\ [][NextSend]_vars

\* a private conversation with the bot has the user's id for its peer_id
DirectPeers == UserIds

\* messages of conversations and private messages; every send is delivered
NextDirect ==
    \E u \in UserIds, p \in Peers \cup DirectPeers, i \in MessageInputs :
        ProcessAndSend(u, p, i.cmd, i.vk, i.http, "ok")

SpecDirect == Init /\ [][NextDirect]_vars

----------------------------------------------------------------------------
(* The spacing of the sends of one VKBotClean *)

\* time.time() when the bot is started: long after the epoch
StartTime == 10

InitSpacing ==
    /\ connected = TRUE
    /\ error_history = <<>>
    /\ error_counts = NoCounts
    /\ error_result = TRUE
    /\ last_send_time = 0
    /\ attempts = <<>>
    /\ awards = NoAwards
    /\ users = [u \in UserIds |-> AbsentRow]
    /\ chat_admins = {}
    /\ now = StartTime
    /\ last = Obs("init", "", 0, 0, FALSE, FALSE, FALSE)
    /\ replies = <<>>
    /\ streak = NoStreak
    /\ calls = 0
    /\ ai = AIIdle
    /\ blocked_count = 0
    /\ checked = Unchecked
    /\ user_last_message = [u \in UserIds |-> NULL]
    /\ inbox = <<>>
    /\ handler = HandlerIdle
    /\ events = <<>>

\* VKBotClean.send_message of a message, with what its request comes to
SendMessage(message, result) ==
    /\ Len(attempts) < MaxAttempts
    /\ LET r == send_message_at(last_send_time, now, result)
       IN /\ now' = r.sent_at
          /\ last_send_time' = r._last_send_time
          /\ attempts' = Append(attempts,
                                [time |-> r.sent_at, result |-> result,
                                 ret |-> r.ret, given |-> message,
                                 text |-> cut_message(message)])
    /\ UNCHANGED <<awards, connected, errorVars, users, chat_admins, last, replies,
                   streak, calls, ai, filterVars, floodVars>>

\* a second passes between two calls of send_message
Pass ==
    /\ now < StartTime + MaxWait
    /\ now' = now + 1
    /\ UNCHANGED <<awards, connected, errorVars, sendVars, users, chat_admins, last,
                   replies, streak, calls, ai, filterVars, floodVars>>

\* a message of one character
ShortMessage == <<Run("a", 1)>>

NextSpacing ==
    \/ \E result \in SendResults : SendMessage(ShortMessage, result)
    \/ Pass

SpecSpacing == InitSpacing /\ [][NextSpacing]_vars

\* the messages to send: of no, one or two runs, about max_length long
RunLengths == {1, max_length - 1, max_length, max_length + 1}

OutboundMessages ==
    {<<>>} \cup {<<Run("a", n)>> : n \in RunLengths}
           \cup {<<Run("a", n), Run("b", m)>> : n, m \in RunLengths}

NextLength ==
    \E message \in OutboundMessages : SendMessage(message, "response")

SpecLength == InitSpacing /\ [][NextLength]_vars

----------------------------------------------------------------------------
(* Experience awards of several writers to one database file: each SQL
   statement is one step *)

\* VKBot._calculate_rank
_calculate_rank(experience) ==
    IF experience < 10 THEN 1
    ELSE IF experience < 25 THEN 2
    ELSE IF experience < 50 THEN 3
    ELSE IF experience < 100 THEN 4
    ELSE IF experience < 200 THEN 5
    ELSE IF experience < 350 THEN 6
    ELSE IF experience < 500 THEN 7
    ELSE IF experience < 750 THEN 8
    ELSE IF experience < 1000 THEN 9
    ELSE 10

\* experience_gain = random.randint(1, 3)
ExperienceGains == 1..3

\* experience of the rows at the start
AwardBase == 8

InitAwards ==
    /\ connected = TRUE
    /\ error_history = <<>>
    /\ error_counts = NoCounts
    /\ error_result = TRUE
    /\ last_send_time = 0
    /\ attempts = <<>>
    /\ awards = NoAwards
    /\ users = [u \in UserIds |->
                  [present |-> TRUE, first_name |-> PipelineName,
                   join_date |-> 0, experience |-> AwardBase,
                   rank_level |-> _calculate_rank(AwardBase), warnings |-> 0,
                   banned |-> FALSE, mute_until |-> NULL]]
    /\ chat_admins = {}
    /\ now = 0
    /\ last = Obs("init", "", 0, 0, FALSE, FALSE, FALSE)
    /\ replies = <<>>
    /\ streak = NoStreak
    /\ calls = 0
    /\ ai = AIIdle
    /\ blocked_count = 0
    /\ checked = [text |-> <<>>, result |-> TRUE]
    /\ user_last_message = [u \in {} |-> 0]
    /\ inbox = <<>>
    /\ handler = HandlerIdle
    /\ events = <<>>

AwardUnchanged ==
    UNCHANGED <<connected, errorVars, sendVars, chat_admins, now, last,
                replies, streak, calls, ai, filterVars, floodVars>>

\* DatabaseManager.add_experience by writer w: one UPDATE statement
DbAddExperience(w, user_id, exp) ==
    /\ awards[w].pc = "idle"
    /\ users' = add_experience(users, user_id, exp)
    /\ awards' = [awards EXCEPT ![w] = [pc |-> "done", user_id |-> user_id,
                                        amount |-> exp, current_exp |-> 0,
                                        current_rank |-> 0]]
    /\ AwardUnchanged

\* VKBot._add_experience by writer w, up to fetchone: the SELECT statement
SelectExperience(w, user_id, amount) ==
    /\ awards[w].pc = "idle"
    /\ awards' = [awards EXCEPT ![w] =
                      IF users[user_id].present
                      THEN [pc |-> "selected", user_id |-> user_id,
                            amount |-> amount,
                            current_exp |-> users[user_id].experience,
                            current_rank |-> users[user_id].rank_level]
                      ELSE [pc |-> "done", user_id |-> user_id,
                            amount |-> 0, current_exp |-> 0,
                            current_rank |-> 0]]
    /\ UNCHANGED users
    /\ AwardUnchanged

\* VKBot._add_experience by writer w, from new_exp on: the UPDATE statement
\* with the values computed from what the SELECT gave
UpdateExperience(w) ==
    /\ awards[w].pc = "selected"
    /\ LET new_exp == awards[w].current_exp + awards[w].amount
           new_rank == _calculate_rank(new_exp)
       IN users' = IF users[awards[w].user_id].present
                   THEN [users EXCEPT ![awards[w].user_id].experience = new_exp,
                                      ![awards[w].user_id].rank_level = new_rank]
                   ELSE users
    /\ awards' = [awards EXCEPT ![w].pc = "done"]
    /\ AwardUnchanged

NextAwards ==
    \/ \E w \in Writers, user_id \in UserIds, exp \in ExperienceGains :
          DbAddExperience(w, user_id, exp)
    \/ \E w \in Writers, user_id \in UserIds, amount \in ExperienceGains :
          SelectExperience(w, user_id, amount)
    \/ \E w \in Writers : UpdateExperience(w)

SpecAwards == InitAwards /\ [][NextAwards]_vars

----------------------------------------------------------------------------
(* The dispatch on texts: handle_commands of VKBotClean and _process_message
   of AsyncVKBot *)

\* the texts of the messages
DispatchTexts ==
    {<<"k", "i", "k", " ", "@", "2">>,
     <<"K", "I", "K", " ", "@", "2", " ", "h", "i">>,
     <<"k", "i", "k", " ", "h", "i">>,
     <<" ", "k", "i", "k", " ", "@", "2">>,
     <<"k", "i", "k", " ", "@", "x">>,
     <<"m", "u", "t", " ", "@", "2", " ", "3", "0">>,
     <<"m", "u", "t", " ", "[", "i", "d", "2", "|", "x", "]", " ", "3", "0">>,
     <<"m", "u", "t", " ", "@", "x", " ", "3", "0">>,
     <<"m", "u", "t", " ", "@", "2", " ", "x">>,
     <<"m", "u", "t", " ", "@", "2">>,
     <<"m", "u", "t", " ", "h", "i", " ", "3", "0">>,
     <<"b", "a", "n", " ", "@", "2">>,
     <<"b", "a", "n", " ", "p", "r", "i", "v", "e", "t">>,
     <<"h", "i">>,
     <<"x", " ", "h", "i">>,
     <<"p", "r", "i", "v", "e", "t">>,
     <<"t", "e", "s", "t">>,
     <<"h", "e", "l", "p">>,
     <<"t", "o", "p">>,
     <<"i", "i", " ", "x">>,
     <<"x">>,
     <<"z", "z", "z", "z", "z", "z", "z", "z", "z", "z", "z">>,
     <<"z", "z", "z", "z", "z", "z", "z", "z", "z", "z">>}

\* VKBotClean.handle_commands on the text of a message
HandleCommands(user_id, peer_id, text, vk, http) ==
    /\ calls < MaxDispatch
    /\ calls' = calls + 1
    /\ LET r == handle_commands_text(Rows(users), Admins(chat_admins), text,
                                     user_id, peer_id, now, vk, http)
       IN /\ users' = IF connected THEN r.users ELSE users
          /\ replies' = r.replies
          /\ last' = [op |-> "handle_commands", text |-> text,
                      user |-> user_id, rule |-> r.rule, vk |-> vk,
                      ok |-> r.success]
    /\ UNCHANGED <<awards, connected, errorVars, sendVars, chat_admins, now, streak, ai, filterVars, floodVars>>

\* AsyncVKBot._process_message on the text of a message
AsyncProcessMessage(user_id, text) ==
    /\ calls < MaxDispatch
    /\ calls' = calls + 1
    /\ LET r == async_process_message(text)
       IN /\ replies' = r.replies
          /\ last' = [op |-> "_process_message", text |-> text,
                      user |-> user_id, rule |-> r.rule, vk |-> FALSE,
                      ok |-> FALSE]
    /\ UNCHANGED <<awards, connected, errorVars, sendVars, users, chat_admins, now, streak, ai, filterVars, floodVars>>

\* the users who write the messages
DispatchSenders == {1}

NextDispatch ==
    \/ \E u \in DispatchSenders, p \in Peers, text \in DispatchTexts,
          vk \in BOOLEAN :
          HandleCommands(u, p, text, vk, "ok")
    \/ \E u \in DispatchSenders, text \in DispatchTexts :
          AsyncProcessMessage(u, text)
    \/ \E u \in DispatchSenders, p \in Peers : SetAdmin(u, p)

SpecDispatch == Init /\ [][NextDispatch]_vars

----------------------------------------------------------------------------
(* The pipeline on the messages of users under a sanction *)

\* the rows of the database file: none, a row without a sanction, a banned
\* row and a row muted for the minutes of MuteMinutes at time 0
SanctionRows ==
    {AbsentRow} \cup StoredRows
        \cup {[r EXCEPT !.experience = 7, !.banned = TRUE] : r \in StoredRows}
        \cup {[r EXCEPT !.experience = 7, !.mute_until = m * 60] :
                 r \in StoredRows, m \in MuteMinutes}

InitStatus ==
    /\ connected = TRUE
    /\ error_history = <<>>
    /\ error_counts = NoCounts
    /\ error_result = TRUE
    /\ last_send_time = 0
    /\ attempts = <<>>
    /\ awards = NoAwards
    /\ users \in [UserIds -> SanctionRows]
    /\ chat_admins = {}
    /\ now = 0
    /\ last = Obs("init", "", 0, 0, FALSE, FALSE, FALSE)
    /\ replies = <<>>
    /\ streak = NoStreak
    /\ calls = 0
    /\ ai = AIIdle
    /\ blocked_count = 0
    /\ checked = [text |-> <<>>, result |-> TRUE]
    /\ user_last_message = [u \in {} |-> 0]
    /\ inbox = <<>>
    /\ handler = HandlerIdle
    /\ events = <<>>

\* the messages: a greeting, a ban of the mentioned user, no command
StatusInputs ==
    {i \in MessageInputs :
        /\ i.cmd.kind \in {"greeting", "ban", "other"}
        /\ i.cmd.kind = "ban" => i.cmd.target # 0 /\ i.http = "ok"}

NextStatus ==
    \/ \E u \in UserIds, p \in Peers, i \in StatusInputs :
            ProcessMessage(u, p, i.cmd, i.vk, i.http)
    \/ Tick

SpecStatus == InitStatus /\ [][NextStatus]_vars

----------------------------------------------------------------------------
(* The error handler: callers report exceptions *)

HandleError(type, category, severity, retry) ==
    /\ Len(error_history) < MaxErrors
    /\ LET r == handle_error(error_history, error_counts, type, category,
                             severity, retry)
       IN /\ error_history' = r.error_history
          /\ error_counts' = r.error_counts
          /\ error_result' = r.ret
    /\ UNCHANGED <<awards, connected, sendVars, users, chat_admins, now, last, replies, streak,
                   calls, ai, filterVars, floodVars>>

NextErrors ==
    \E type \in ErrorTypes, category \in ErrorCategory,
       severity \in ErrorSeverity, retry \in BOOLEAN :
        HandleError(type, category, severity, retry)

SpecErrors == InitStore /\ [][NextErrors]_vars

----------------------------------------------------------------------------
(* The resolution of AI responses: one action per request to a service *)

\* The environment decides which services have a key.
InitAI ==
    /\ connected = TRUE
    /\ error_history = <<>>
    /\ error_counts = NoCounts
    /\ error_result = TRUE
    /\ last_send_time = 0
    /\ attempts = <<>>
    /\ awards = NoAwards
    /\ users = [u \in UserIds |-> AbsentRow]
    /\ chat_admins = {}
    /\ now = 0
    /\ last = Obs("init", "", 0, 0, FALSE, FALSE, FALSE)
    /\ replies = <<>>
    /\ streak = NoStreak
    /\ calls = 0
    /\ ai \in {[AIIdle EXCEPT !.config = c] : c \in SUBSET ProviderSet}
    /\ blocked_count = 0
    /\ checked = Unchecked
    /\ user_last_message = [u \in UserIds |-> NULL]
    /\ inbox = <<>>
    /\ handler = HandlerIdle
    /\ events = <<>>

\* a caller awaits get_ai_response(message)
GetAIResponse(message) ==
    /\ ai.pc \in {"idle", "done"}
    /\ ~ContentModeration_check_content(message).allowed => blocked_count < MaxBlocked
    /\ ai' = get_ai_response(ai, message)
    /\ blocked_count' = IF ContentModeration_check_content(message).allowed
                        THEN blocked_count ELSE blocked_count + 1
    /\ UNCHANGED <<awards, connected, errorVars, sendVars, users, chat_admins, now, last, replies, streak, calls, checked, floodVars>>

\* a _call_openrouter whose loop goes back to the first model after the
\* second one failed
CallOpenRouter_restarting(outcome) ==
    /\ ai.pc = "openrouter"
    /\ LET response == openrouter_model(ai.model, outcome)
       IN  ai' = IF response # None
                 THEN AfterCall(ai, "openrouter", outcome, response)
                 ELSE IF ai.model = 2
                 THEN [ai EXCEPT !.model = 1]
                 ELSE IF ai.model < Len(free_models)
                 THEN [ai EXCEPT !.model = ai.model + 1]
                 ELSE AfterCall(ai, "openrouter", outcome, None)
    /\ UNCHANGED <<awards, connected, errorVars, sendVars, users, chat_admins, now, last, replies, streak, calls, filterVars, floodVars>>

\* _call_openrouter: the request for the model that the loop is at
CallOpenRouter(outcome) ==
    /\ ai.pc = "openrouter"
    /\ LET response == openrouter_model(ai.model, outcome)
       IN  ai' = IF response # None
                 THEN AfterCall(ai, "openrouter", outcome, response)
                 ELSE IF ai.model < Len(free_models)
                 THEN [ai EXCEPT !.model = ai.model + 1]
                 ELSE AfterCall(ai, "openrouter", outcome, None)
    /\ UNCHANGED <<awards, connected, errorVars, sendVars, users, chat_admins, now, last, replies, streak, calls, filterVars, floodVars>>

CallGroq(outcome) ==
    /\ ai.pc = "groq"
    /\ ai' = AfterCall(ai, "groq", outcome, _call_groq(outcome))
    /\ UNCHANGED <<awards, connected, errorVars, sendVars, users, chat_admins, now, last, replies, streak, calls, filterVars, floodVars>>

CallOpenAI(outcome) ==
    /\ ai.pc = "openai"
    /\ ai' = AfterCall(ai, "openai", outcome, _call_openai(outcome))
    /\ UNCHANGED <<awards, connected, errorVars, sendVars, users, chat_admins, now, last, replies, streak, calls, filterVars, floodVars>>

CallHuggingFace(outcome) ==
    /\ ai.pc = "huggingface"
    /\ ai' = AfterCall(ai, "huggingface", outcome, _call_huggingface(outcome))
    /\ UNCHANGED <<awards, connected, errorVars, sendVars, users, chat_admins, now, last, replies, streak, calls, filterVars, floodVars>>

NextAI ==
    \/ \E message \in Messages : GetAIResponse(message)
    \/ \E outcome \in Outcomes : CallOpenRouter(outcome)
    \/ \E outcome \in Outcomes : CallGroq(outcome)
    \/ \E outcome \in Outcomes : CallOpenAI(outcome)
    \/ \E outcome \in Outcomes : CallHuggingFace(outcome)

SpecAI == InitAI /\ [][NextAI]_vars

----------------------------------------------------------------------------
(* The message loop of AsyncVKBot: _message_loop awaits the handler of
   one event before it takes the next one; _background_cleanup runs between
   the steps of the handler. *)

InitFlood ==
    /\ connected = TRUE
    /\ error_history = <<>>
    /\ error_counts = NoCounts
    /\ error_result = TRUE
    /\ last_send_time = 0
    /\ attempts = <<>>
    /\ awards = NoAwards
    /\ users = [u \in UserIds |-> AbsentRow]
    /\ chat_admins = {}
    /\ now = 0
    /\ last = Obs("init", "", 0, 0, FALSE, FALSE, FALSE)
    /\ replies = <<>>
    /\ streak = NoStreak
    /\ calls = 0
    /\ ai = AIIdle
    /\ blocked_count = 0
    /\ checked = Unchecked
    /\ user_last_message = [u \in UserIds |-> NULL]
    /\ inbox = <<>>
    /\ handler = HandlerIdle
    /\ events = <<>>

\* the long poll receives a message of the user in a conversation
Deliver(user_id) ==
    /\ Len(inbox) < MaxInbox
    /\ Len(inbox) + Len(events) < MaxEvents
    /\ inbox' = Append(inbox, user_id)
    /\ UNCHANGED <<awards, connected, errorVars, sendVars, users, chat_admins, now, last, replies, streak, calls, ai,
                   filterVars, user_last_message, handler, events>>

\* _handle_new_message up to its await of _process_message
HandleNewMessage_proceeding ==
    /\ handler.pc = "idle"
    /\ inbox # <<>>
    /\ LET r == check_flood_control(user_last_message, Head(inbox), now)
       IN  /\ user_last_message' = r.user_last_message
           /\ events' = Append(events,
                  [user |-> Head(inbox), behind |-> Len(Tail(inbox)),
                   time |-> now, allowed |-> r.ret, processed |-> FALSE,
                   sent |-> 0])
           /\ handler' = [pc |-> "process"]
    /\ inbox' = Tail(inbox)
    /\ UNCHANGED <<awards, connected, errorVars, sendVars, users, chat_admins, now, last, replies, streak, calls, ai,
                   filterVars>>

HandleNewMessage ==
    /\ handler.pc = "idle"
    /\ inbox # <<>>
    /\ LET r == check_flood_control(user_last_message, Head(inbox), now)
       IN  /\ user_last_message' = r.user_last_message
           /\ events' = Append(events,
                  [user |-> Head(inbox), behind |-> Len(Tail(inbox)),
                   time |-> now, allowed |-> r.ret, processed |-> FALSE,
                   sent |-> 0])
           /\ handler' = IF r.ret THEN [pc |-> "process"] ELSE HandlerIdle
    /\ inbox' = Tail(inbox)
    /\ UNCHANGED <<awards, connected, errorVars, sendVars, users, chat_admins, now, last, replies, streak, calls, ai,
                   filterVars>>

\* _process_message, here of a greeting: it is answered with one message
ProcessEvent ==
    /\ handler.pc = "process"
    /\ events' = [events EXCEPT ![Len(events)].processed = TRUE,
                                  ![Len(events)].sent = 1]
    /\ handler' = HandlerIdle
    /\ UNCHANGED <<awards, connected, errorVars, sendVars, users, chat_admins, now, last, replies, streak, calls, ai,
                   filterVars, user_last_message, inbox>>

BackgroundCleanup ==
    /\ user_last_message' = background_cleanup(user_last_message, now)
    /\ user_last_message' # user_last_message
    /\ UNCHANGED <<awards, connected, errorVars, sendVars, users, chat_admins, now, last, replies, streak, calls, ai,
                   filterVars, inbox, handler, events>>

\* a second passes, or an hour and a second
ElapseSteps == {1, 3601}

\* the clock of the model counts MaxSeconds seconds and then makes at most
\* one step of an hour
Elapse(d) ==
    /\ now <= MaxSeconds
    /\ d = 1 => now < MaxSeconds
    /\ now' = now + d
    /\ UNCHANGED <<awards, connected, errorVars, sendVars, users, chat_admins, last, replies, streak, calls, ai,
                   filterVars, floodVars>>

NextFlood ==
    \/ \E u \in UserIds : Deliver(u)
    \/ HandleNewMessage
    \/ ProcessEvent
    \/ BackgroundCleanup
    \/ \E d \in ElapseSteps : Elapse(d)

SpecFlood == InitFlood /\ [][NextFlood]_vars

----------------------------------------------------------------------------
(* The content check on texts *)

InitFilter ==
    /\ connected = TRUE
    /\ error_history = <<>>
    /\ error_counts = NoCounts
    /\ error_result = TRUE
    /\ last_send_time = 0
    /\ attempts = <<>>
    /\ awards = NoAwards
    /\ users = [u \in UserIds |-> AbsentRow]
    /\ chat_admins = {}
    /\ now = 0
    /\ last = Obs("init", "", 0, 0, FALSE, FALSE, FALSE)
    /\ replies = <<>>
    /\ streak = NoStreak
    /\ calls = 0
    /\ ai = AIIdle
    /\ blocked_count = 0
    /\ checked \in {[Unchecked EXCEPT !.message = text] : text \in Texts}
    /\ user_last_message = [u \in UserIds |-> NULL]
    /\ inbox = <<>>
    /\ handler = HandlerIdle
    /\ events = <<>>

\* moderation_system.check_content(message, user_id, peer_id) on the text
\* that waits for it
CheckContent ==
    /\ ~checked.called
    /\ ~check_content(checked.message).allowed => blocked_count < MaxBlocked
    /\ checked' = [checked EXCEPT !.called = TRUE,
                                  !.result = check_content(checked.message)]
    /\ blocked_count' = IF check_content(checked.message).allowed
                        THEN blocked_count ELSE blocked_count + 1
    /\ UNCHANGED <<awards, connected, errorVars, sendVars, users, chat_admins, now, last, replies, streak, calls, ai, floodVars>>

NextFilter == CheckContent

SpecFilter == InitFilter /\ [][NextFilter]_vars

----------------------------------------------------------------------------
(* Properties of the store, the moderation actions and the pipeline *)

\* the user is muted at the present time (is_muted without its write)
Muted(user_id) ==
    /\ users[user_id].present
    /\ users[user_id].mute_until # NULL
    /\ ~(now > users[user_id].mute_until)

Consistent(user_id) ==
    users[user_id].rank_level = level_for(users[user_id].experience, 10)

\* C1: the stored experience of every user is non-negative and never
\* decreases from one state to the next (the model has no administrative
\* reset).
C1_ExperienceNeverDecreases ==
    [][\A u \in UserIds :
          /\ users'[u].experience >= 0
          /\ users'[u].experience >= users[u].experience]_vars

\* C2: after a processed message and after a moderation action, every
\* user's stored rank_level is the highest level whose threshold is at most
\* the stored experience.
C2_RankMatchesExperience ==
    last.op \in ModerationKinds \cup {"message"} =>
        \A u \in UserIds : Consistent(u)

\* C3: every processed message of a user with a row adds to the stored
\* experience, and the message that takes it across the 100-point threshold
\* sends the rank-up notification.
C3_MessagesAccumulate ==
    [][(last'.op = "message" /\ last'.processed /\ users[last'.user].present) =>
          /\ users'[last'.user].experience > users[last'.user].experience
          /\ (users[last'.user].experience < 100
                /\ users'[last'.user].experience >= 100) =>
                \E i \in 1..Len(replies') : replies'[i].text = "new_rank"]_vars

\* C4: the third successful warn in a row on a user who had no warning
\* leaves the user muted, and the first and the second change neither the
\* mute nor the ban.
C4_ThirdWarnMutes ==
    /\ [](streak.n = 3 => Muted(streak.target))
    /\ [][streak'.n \in {1, 2} =>
             /\ users'[streak'.target].mute_until = users[streak'.target].mute_until
             /\ users'[streak'.target].banned = users[streak'.target].banned]_vars

\* C5: the fifth successful warn in a row on a user who had no warning,
\* which brings the stored count to 5, leaves the user banned.
C5_FifthWarnBans ==
    (streak.n = 5 /\ get_warnings(users, streak.target) = 5) =>
        is_banned(users, streak.target)

\* C6: a kick, mute, ban or warn command whose target holds a grant in
\* chat_admins for the conversation is rejected, and the target's warnings,
\* mute and ban are as before.
C6_AdminTargetProtected ==
    [][\A p \in Peers :
          (/\ last'.op = "message" /\ last'.processed
           /\ last'.kind \in ModerationKinds
           /\ last'.target # 0 /\ last'.target # last'.user
           /\ is_admin(chat_admins, last'.target, p - GroupBase)) =>
             /\ ~last'.ok
             /\ users'[last'.target].warnings = users[last'.target].warnings
             /\ users'[last'.target].mute_until = users[last'.target].mute_until
             /\ users'[last'.target].banned = users[last'.target].banned]_vars

RequiredCapability(kind) ==
    CASE kind = "unmute" -> "mute"
      [] kind = "unban" -> "ban"
      [] OTHER -> kind

\* C7: a kick, mute, ban, warn, unmute or unban command of a caller whose
\* effective permissions lack the capability is answered with the rejection
\* and changes no row of another user.
C7_CommandsPermissionGated ==
    [][\A p \in Peers :
          (/\ last'.op = "message" /\ last'.processed
           /\ last'.kind \in ModerationKinds \cup {"unmute", "unban"}
           /\ last'.target # 0
           /\ RequiredCapability(last'.kind) \notin
                get_user_permissions(users', chat_admins, last'.user, p,
                                     last'.vk).permissions) =>
             /\ replies' # <<>>
             /\ replies'[Len(replies')].text = "not_enough_rights"
             /\ \A u \in UserIds \ {last'.user} : users'[u] = users[u]]_vars

\* C8: a warn command of a caller at rank 1 is rejected with the caller's
\* rank named and leaves the target's warnings as they were; the command of
\* a caller stored at rank 8 or higher, or of a manager of the VK group,
\* succeeds and adds exactly 1 to the target's warnings.
C8_WarnByRank ==
    [][\A p \in Peers :
          (/\ last'.op = "message" /\ last'.processed /\ last'.kind = "warn"
           /\ last'.target # 0 /\ last'.target # last'.user) =>
             /\ (/\ ~last'.vk
                 /\ get_user_permissions(users, chat_admins, last'.user, p,
                                         FALSE).rank_level = 1) =>
                   /\ replies'[Len(replies')] = Reply("not_enough_rights", 1)
                   /\ get_warnings(users', last'.target)
                        = get_warnings(users, last'.target)
             /\ (last'.vk \/ (users[last'.user].present
                               /\ users[last'.user].rank_level >= 8)) =>
                   /\ last'.ok
                   /\ get_warnings(users', last'.target)
                        = get_warnings(users, last'.target) + 1]_vars

----------------------------------------------------------------------------
(* Properties of the resolution of AI responses *)

\* the configured services that come before / after the provider
ConfiguredBefore(provider) ==
    {p \in ai.config : ProviderIndex(p) < ProviderIndex(provider)}

ConfiguredAfter(provider) ==
    {p \in ai.config : ProviderIndex(p) > ProviderIndex(provider)}

Called == {ai.log[i].provider : i \in DOMAIN ai.log}

C11_FailureContinues ==
    [][(/\ Len(ai'.log) = Len(ai.log) + 1
        /\ ai'.log[Len(ai'.log)].outcome \in {"status", "exception"}) =>
          LET provider == ai'.log[Len(ai'.log)].provider
          IN  /\ ai'.result \notin {Raised, CriticalErrorMessage}
              /\ ConfiguredAfter(provider) # {} =>
                    /\ ai'.pc \in ConfiguredAfter(provider)
                    /\ \A p \in ConfiguredAfter(provider) :
                          ProviderIndex(ai'.pc) <= ProviderIndex(p)
              /\ ConfiguredAfter(provider) = {} =>
                    /\ ai'.pc = "done"
                    /\ ai'.result = UnavailableMessage]_vars

\* a service fails with an exception, the next one with an error status,
\* and the one after them is called and gives the result
C11_Witness ==
    /\ ai.pc = "done"
    /\ Len(ai.log) = 3
    /\ ai.log[1].outcome = "exception"
    /\ ai.log[2].outcome = "status"
    /\ ai.log[3].outcome = "text"
    /\ ai.result = ai.log[3].response

\* C12: when the content check lets the message through and no called
\* service method returned a text that is not blank, the result is the local
\* answer that _get_local_response gives for the message (a greeting for a
\* greeting), not an error message.
C12_LocalFallback ==
    (/\ ai.pc = "done"
     /\ ContentModeration_check_content(ai.message).allowed
     /\ \A i \in DOMAIN ai.log : ai.log[i].response.len <= 0)
        => /\ ai.result = _get_local_response(ai.message)
           /\ ai.result \notin {UnavailableMessage, CriticalErrorMessage}

\* the letters a and b are the same, capital or small
SameLetter(a, b) ==
    \/ a = b
    \/ \E k \in DOMAIN UpperCase : {a, b} = {UpperCase[k], LowerCase[k]}

\* the text holds a word of the list somewhere, in whatever case
HoldsWordOf(text, list) ==
    \E word \in Keywords[list], k \in 0..Len(text) :
        /\ k + Len(word) <= Len(text)
        /\ \A i \in 1..Len(word) : SameLetter(text[k + i], word[i])

\* C13: check_content refuses a text exactly when the text holds a word of
\* one of the three lists as a substring, in whatever case; the reason is
\* that of the first list, in the order inappropriate words, hate speech,
\* spam, that has such a word; the empty text is allowed.
C13_FilterPriority ==
    checked.called =>
        LET text == checked.message
            result == checked.result
        IN  /\ result.allowed = (\A l \in KeywordLists : ~HoldsWordOf(text, l))
            /\ HoldsWordOf(text, "inappropriate_words") =>
                    result.reason = "inappropriate_language"
            /\ (/\ ~HoldsWordOf(text, "inappropriate_words")
                /\ HoldsWordOf(text, "hate_speech")) =>
                    result.reason = "hate_speech"
            /\ (/\ ~HoldsWordOf(text, "inappropriate_words")
                /\ ~HoldsWordOf(text, "hate_speech")
                /\ HoldsWordOf(text, "spam_patterns")) =>
                    result.reason = "spam"
            /\ text = <<>> => result.allowed

\* a text with capital letters that holds a word of the hate speech list and
\* one of the spam list, and none of the first list, is refused as hate
\* speech
C13_Witness ==
    /\ checked.called
    /\ checked.message # lower(checked.message)
    /\ HoldsWordOf(checked.message, "hate_speech")
    /\ HoldsWordOf(checked.message, "spam_patterns")
    /\ ~HoldsWordOf(checked.message, "inappropriate_words")
    /\ ~checked.result.allowed
    /\ checked.result.reason = "hate_speech"

\* C14: no service is called for a message that the content check refuses:
\* the resolution of such a message is over at once, with the canned answer
\* of the check as its result and no call in its log; a resolution that is
\* at a service is that of an allowed message.
C14_ModerationFirst ==
    ~ContentModeration_check_content(ai.message).allowed =>
        /\ ai.pc = "done"
        /\ ai.log = <<>>
        /\ ai.result = ContentModeration_check_content(ai.message).response

\* a refused message (a spam word and a greeting) with all four services
\* configured
C14_Witness ==
    /\ ai.pc = "done"
    /\ ai.config = ProviderSet
    /\ ai.message = {"spam_patterns", "greetings"}
    /\ ai.log = <<>>
    /\ ai.result = Text("moderation", 3, 2)
    /\ blocked_count = 1

\* the events of the same user that were let through before event j
AcceptedBefore(j) ==
    {i \in 1..(j - 1) : events[i].user = events[j].user /\ events[i].allowed}

\* C15: the flood control lets a message of a user through exactly when no
\* message of that user was let through less than flood_limit seconds
\* before it: of two messages within the interval the first passes and the
\* second does not, and a message that comes flood_limit seconds or more
\* after the last one let through passes.
C15_FloodControl ==
    \A j \in DOMAIN events :
        events[j].allowed =
            (\A i \in AcceptedBefore(j) :
                events[j].time - events[i].time >= flood_limit)

\* three messages of one user: let through, refused within the interval,
\* let through when the interval is just over
C15_Witness ==
    /\ Len(events) = 3
    /\ \A j \in 1..3 : events[j].user = events[1].user
    /\ events[1].allowed /\ ~events[2].allowed /\ events[3].allowed
    /\ events[2].time > events[1].time
    /\ events[2].time - events[1].time < flood_limit
    /\ events[3].time - events[1].time = flood_limit

C17_UpdateRankIdempotent ==
    /\ [](last.op = "update_rank" /\ last.kind = "repeated" => ~last.ok)
    /\ [][last'.op = "update_rank" /\ last'.kind = "repeated" =>
              users' = users]_vars

\* an update_rank that returned False for a user whose stored level is
\* above 1 and fits the experience: an earlier call has raised the level
C17_Witness ==
    /\ last.op = "update_rank"
    /\ last.kind = "repeated"
    /\ ~last.ok
    /\ users[last.user].present
    /\ users[last.user].rank_level = 2
    /\ Consistent(last.user)

\* C18: every addition of experience to a user keeps the stored level equal
\* to the level that the threshold table gives for the experience
\* accumulated so far: when the level fits the experience before an
\* addition, it fits the sum after it, whatever the size of the addition, so
\* that after a sequence of additions the level is that of the total.
C18_RankFollowsTotal ==
    [][\A u \in UserIds :
          (/\ users[u].present /\ users'[u].present
           /\ users'[u].experience > users[u].experience
           /\ Consistent(u)) =>
             users'[u].rank_level = level_for(users'[u].experience, 10)]_vars

\* C19: when a user whose experience is 0 sends a greeting word in a
\* conversation and the message is processed, the bot sends the greeting,
\* the stored experience of the user is 1, 2 or 3 higher than before, and
\* the stored level of the user is 1.
C19_GreetingOfNewUser ==
    [][(/\ last'.op = "message" /\ last'.processed
        /\ last'.kind = "greeting"
        /\ users[last'.user].experience = 0) =>
          /\ \E i \in DOMAIN replies' : replies'[i].text = "greeting"
          /\ users'[last'.user].present
          /\ users'[last'.user].experience - users[last'.user].experience
                \in 1..3
          /\ users'[last'.user].rank_level = 1]_vars

\* the greeting of a user is processed and answered with the greeting
\* alone, and it is the only message that the database knows of
C19_Witness ==
    /\ last.op = "message" /\ last.processed
    /\ last.kind = "greeting"
    /\ replies = <<Reply("greeting", 0)>>
    /\ users[last.user].present
    /\ users[last.user].experience = 1
    /\ users[last.user].rank_level = 1
    /\ \A u \in UserIds \ {last.user} : ~users[u].present

\* C20: create_or_update_user creates an absent user with experience 0 and
\* rank level 1; for a user who exists it writes the first name it is given
\* and keeps the join date of the first registration.
C20_UpsertUser ==
    [][last'.op = "create_or_update_user" =>
          LET old == get_user(users, last'.user)
              new == get_user(users', last'.user)
          IN /\ new.present
             /\ new.first_name = last'.kind
             /\ ~old.present =>
                    /\ new.experience = 0
                    /\ new.rank_level = 1
                    /\ new.join_date = now
             /\ old.present => new.join_date = old.join_date]_vars

\* a user registered at time 0 is registered again after the clock has
\* advanced, as Ivan, and keeps join date 0, while another user is first
\* registered at that later time as Anna
C20_Witness ==
    /\ last.op = "create_or_update_user"
    /\ now > 0
    /\ get_user(users, last.user).join_date = 0
    /\ get_user(users, last.user).first_name = "Ivan"
    /\ \E u \in UserIds :
          /\ get_user(users, u).join_date = now
          /\ get_user(users, u).first_name = "Anna"

\* C21: create_or_update_user on a user who has a row, and the processing of
\* a message of that user that is no moderation command, leave the row in
\* place with its warnings, its ban flag and its mute deadline (a deadline
\* that has passed may be cleared by the read of is_muted).
C21_UpsertKeepsSanctions ==
    [][(/\ \/ last'.op = "create_or_update_user"
           \/ /\ last'.op = "message"
              /\ last'.kind \notin ModerationKinds \cup {"unmute", "unban"}
        /\ get_user(users, last'.user).present) =>
          LET old == get_user(users, last'.user)
              new == get_user(users', last'.user)
          IN /\ new.present
             /\ new.warnings = old.warnings
             /\ new.banned = old.banned
             /\ \/ new.mute_until = old.mute_until
                \/ /\ old.mute_until # NULL /\ old.mute_until <= now
                   /\ new.mute_until = NULL]_vars

\* C22: the stored rank_level of a user never decreases from one state to
\* the next (the model has no administrative reset of experience).
C22_RankNeverDecreases ==
    [][\A u \in UserIds :
          users'[u].rank_level >= users[u].rank_level]_vars

\* C23: is_muted returns true exactly when the user has a stored mute
\* deadline that the clock has not passed; a read after the deadline clears
\* the deadline and returns false; a read that returns true changes nothing,
\* and the passing of time alone clears no deadline.
C23_LazyUnmute ==
    [][/\ last'.op = "is_muted" =>
            LET old == get_user(users, last'.user)
                new == get_user(users', last'.user)
            IN /\ last'.ok <=> (/\ old.present
                                /\ old.mute_until # NULL
                                /\ now <= old.mute_until)
               /\ (old.mute_until # NULL /\ now > old.mute_until) =>
                      new.mute_until = NULL
               /\ last'.ok => users' = users
       /\ last'.op = "wait" => users' = users]_vars

\* a read after the deadline has unmuted the user and returned false
C23_Witness ==
    /\ last.op = "is_muted"
    /\ last.kind = "unmuted"
    /\ ~last.ok
    /\ get_user(users, last.user).present
    /\ get_user(users, last.user).mute_until = NULL
    /\ now > 0

\* C24: while the database cannot be opened, no operation changes a table,
\* the operations that return a value return the empty one
\* (create_or_update_user None, update_rank, mute_user and is_muted False),
\* and process_message runs to its end without a rank-up notification.
C24_StoreUnavailable ==
    [][~connected =>
          /\ users' = users
          /\ chat_admins' = chat_admins
          /\ last'.op \in {"create_or_update_user", "update_rank", "mute_user",
                           "is_muted"} => ~last'.ok
          /\ last'.op = "message" =>
                /\ last'.processed
                /\ \A i \in 1..Len(replies') : replies'[i].text # "new_rank"]_vars

\* a user whose row lies in the unreadable file has sent a message that was
\* processed to the end, and the row is as it was
C24_Witness ==
    /\ ~connected
    /\ last.op = "message"
    /\ last.processed
    /\ get_user(users, last.user).present
    /\ get_user(users, last.user).experience \in InitExps

\* C25: every handle_error appends exactly one entry to error_history, adds
\* exactly one to the count of the key of its category and exception type,
\* leaves the other counts alone, and returns False exactly when the
\* severity is critical.
C25_HandleError ==
    [][errorVars' # errorVars =>
          /\ Len(error_history') = Len(error_history) + 1
          /\ SubSeq(error_history', 1, Len(error_history)) = error_history
          /\ LET e == error_history'[Len(error_history')]
                 key == error_key(e.category, e.error)
             IN /\ DOMAIN error_counts' = DOMAIN error_counts \cup {key}
                /\ error_counts'[key] = counts_get(error_counts, key) + 1
                /\ \A k \in DOMAIN error_counts \ {key} :
                      error_counts'[k] = error_counts[k]
                /\ error_result' = (e.severity # "critical")]_vars

\* two errors of one category and type have been handled, the second one a
\* critical one, and handle_error has returned False
C25_Witness ==
    /\ Len(error_history) = 2
    /\ error_history[1].severity = "high"
    /\ error_history[2].severity = "critical"
    /\ error_counts = [k \in {"database_DatabaseError"} |-> 2]
    /\ error_result = FALSE

\* C26: a message whose text check_content refuses is answered with the
\* refusal alone and changes no row of the users table (no experience, no
\* rank change).
C26_ModerationBeforePipeline ==
    [][(/\ last'.op = "message"
        /\ ~check_content(checked'.message).allowed) =>
          /\ replies' = <<Reply(check_content(checked'.message).reason, 0)>>
          /\ users' = users]_vars

\* C27: when the flood control refuses a message, user_last_message is left
\* as it was, the handler returns at once, and the message is never handed
\* to _process_message and never answered.
C27_RejectedLeavesNoTrace ==
    /\ [][(/\ Len(events') = Len(events) + 1
            /\ ~events'[Len(events')].allowed) =>
              /\ user_last_message' = user_last_message
              /\ handler' = HandlerIdle
              /\ UNCHANGED <<users, chat_admins, replies>>]_vars
    /\ [](\A j \in DOMAIN events :
            ~events[j].allowed => ~events[j].processed /\ events[j].sent = 0)

\* a message was refused, and the next message of the same user came
\* flood_limit seconds after the one let through and was let through
C27_Witness ==
    /\ Len(events) = 3
    /\ events[1].allowed /\ ~events[2].allowed /\ events[3].allowed
    /\ events[2].user = events[1].user /\ events[3].user = events[1].user
    /\ events[2].time = events[1].time + flood_limit - 1
    /\ events[3].time = events[1].time + flood_limit
    /\ events[3].processed
    /\ handler = HandlerIdle

\* C28: after a message whose processing raised an unexpected exception the
\* main loop still listens, so that the messages that come later are taken.
C28_ErrorsContained ==
    \A j \in DOMAIN events : events[j].raised => handler.pc = "listen"

\* C29: when the messages that process_message sends are not delivered, the
\* message is processed to the end all the same and the users table is
\* what the processing wrote: the registration, the experience and the rank
\* of the sender are not taken back.
C29_FailedSendKeepsReputation ==
    [][(/\ last'.op = "message"
        /\ events' # <<>>
        /\ events'[1].send # "ok"
        /\ replies' # <<>>) =>
          /\ events'[1].delivered = 0
          /\ last'.processed =
                (check_user_status(users, last'.user, now).status = "ok")
          /\ \E http \in HttpOutcomes :
                users' = process_message(users, chat_admins, events'[1].cmd,
                                         last'.user, CHOOSE p \in Peers : TRUE,
                                         now, last'.vk, http).users
          /\ last'.processed =>
                /\ get_user(users', last'.user).present
                /\ get_user(users', last'.user).experience >= 1]_vars

\* a user without a row has sent a greeting, the answer was not delivered,
\* and the user has the row and the experience of the message
C29_Witness ==
    /\ last.op = "message"
    /\ last.kind = "greeting"
    /\ last.processed
    /\ events # <<>>
    /\ events[1].send = "exception"
    /\ events[1].delivered = 0
    /\ replies = <<Reply("greeting", 0)>>
    /\ get_user(users, last.user).experience = 1
    /\ get_user(users, last.user).join_date = now

\* C30: a message whose peer_id is not above 2000000000 changes no row of
\* the users table and is answered with nothing.
C30_OnlyConversations ==
    [][(/\ last'.op = "message"
        /\ events' # <<>>
        /\ events'[1].peer <= GroupBase) =>
          /\ users' = users
          /\ replies' = <<>>]_vars

\* C31: between two requests of messages.send that follow one another at
\* least send_interval seconds pass, whatever the first one came to.
C31_SendSpacing ==
    \A i \in 2..Len(attempts) :
        attempts[i].time - attempts[i - 1].time >= send_interval

\* C32: a message of more than max_length characters goes out as its first
\* max_length characters followed by the marker "...", and a message of at
\* most max_length characters goes out as it is.
C32_MessageCut ==
    \A i \in DOMAIN attempts :
        LET given == attempts[i].given
            text == attempts[i].text
        IN IF TextLen(given) > max_length
           THEN /\ TextLen(text) = max_length + 3
                /\ Take(text, max_length) = Take(given, max_length)
                /\ text[Len(text)] = Run(".", 3)
           ELSE text = given

\* a message of max_length characters has gone out as it is, and one of
\* max_length and one characters has gone out without its last character
\* and with the marker
C32_Witness ==
    /\ Len(attempts) = 2
    /\ attempts[1].given = <<Run("a", max_length - 1), Run("b", 1)>>
    /\ attempts[1].text = attempts[1].given
    /\ attempts[2].given = <<Run("a", max_length), Run("b", 1)>>
    /\ attempts[2].text = <<Run("a", max_length), Run(".", 3)>>

\* the sum of the amounts of the awards to user_id that the writers of ws
\* have finished
RECURSIVE Awarded(_, _)
Awarded(ws, user_id) ==
    IF ws = {} THEN 0
    ELSE LET w == CHOOSE x \in ws : TRUE
         IN (IF awards[w].pc = "done" /\ awards[w].user_id = user_id
             THEN awards[w].amount ELSE 0) + Awarded(ws \ {w}, user_id)

\* C33: when no award to a user is in progress, the experience of the user
\* is what it was at the start plus the amounts of all the awards made to
\* the user, also when two awards overlapped.
C33_NoLostUpdate ==
    \A user_id \in UserIds :
        (\A w \in Writers :
            ~(awards[w].pc = "selected" /\ awards[w].user_id = user_id))
        => users[user_id].experience = AwardBase + Awarded(Writers, user_id)

\* the services of config between the i-th and the j-th of Providers
Between(config, i, j) ==
    {k \in DOMAIN Providers : i < k /\ k < j /\ Providers[k] \in config}

\* C34: within one resolution every request goes to a service or model that
\* comes later in the order openrouter (its models as listed), groq, openai,
\* huggingface than the request before it: the first request goes to the
\* first service that has a key, a failed request to an OpenRouter model is
\* followed by the next model, a failed service by the next service that has
\* a key, and nothing is requested twice.
C34_OrderedOnce ==
    [][/\ (ai.pc \in {"idle", "done"} /\ ai'.pc \in ProviderSet)
          => /\ ai'.pc \in ai'.config
             /\ Between(ai'.config, 0, ProviderIndex(ai'.pc)) = {}
             /\ ai'.model = IF ai'.pc = "openrouter" THEN 1 ELSE 0
       /\ (ai.pc \in ProviderSet /\ ai' # ai)
          => \/ ai'.pc = "done"
             \/ /\ ai'.pc = "openrouter"
                /\ ai.pc = "openrouter"
                /\ ai'.model = ai.model + 1
                /\ ai'.model <= Len(free_models)
             \/ /\ ai'.pc \in ai.config
                /\ ProviderIndex(ai'.pc) > ProviderIndex(ai.pc)
                /\ Between(ai.config, ProviderIndex(ai.pc),
                           ProviderIndex(ai'.pc)) = {}
                /\ ai.pc = "openrouter" => ai.model = Len(free_models)]_vars

\* every service has a key and every one of them has been asked, in the
\* order of Providers, without an answer
C34_Witness ==
    /\ ai.pc = "done"
    /\ ai.config = ProviderSet
    /\ Len(ai.log) = Len(Providers)
    /\ \A i \in DOMAIN Providers : ai.log[i].provider = Providers[i]
    /\ ai.result = UnavailableMessage

\* the texts that begin with the word of a moderation command and have a
\* greeting word further on
PrefixedGreetings ==
    {text \in DispatchTexts :
        /\ \E r \in {"kick", "mute", "ban"} :
              \E i \in DOMAIN Rules :
                  /\ Rules[i].name = r
                  /\ startswith(strip(lower(text)), Rules[i].prefix)
        /\ \E word \in {<<"p", "r", "i", "v", "e", "t">>, <<"h", "i">>} :
              Contains(lower(text), word)}

\* C35: handle_commands sends at most one reply for a message, the branch it
\* takes is one whose condition holds and no branch before it has a
\* condition that holds; a text that begins with the word of a moderation
\* command is handled by the branch of that command, also when a greeting
\* word comes later in it.
C35_FirstMatchWins ==
    last.op = "handle_commands" =>
        LET message_lower == strip(lower(last.text))
            hit == Matching(Rules, last.text, message_lower)
        IN /\ Len(replies) <= 1
           /\ hit = {} => last.rule = "" /\ replies = <<>>
           /\ hit # {} =>
                 \E i \in hit : /\ Rules[i].name = last.rule
                                /\ \A j \in hit : i <= j
           /\ last.text \in PrefixedGreetings =>
                 /\ last.rule \in ModerationKinds
                 /\ \A i \in DOMAIN replies : replies[i].text # "greeting"

\* the text KIK @2 hi has been handled as a kick by a chat administrator
C35_Witness ==
    /\ last.op = "handle_commands"
    /\ last.text = <<"K", "I", "K", " ", "@", "2", " ", "h", "i">>
    /\ last.rule = "kick"
    /\ last.vk
    /\ last.ok

\* C36: a message that no branch of the dispatcher takes is answered with
\* what the AI gives when it is longer than unknown_length characters, and
\* is not answered otherwise.
C36_FallbackToAI ==
    (last.op \in {"handle_commands", "_process_message"} /\ last.rule = "")
        => replies = IF Len(last.text) > unknown_length
                     THEN <<Reply("ai_response", 0)>>
                     ELSE <<>>

\* the commands whose mention names nobody
BadMentions ==
    {<<"k", "i", "k", " ", "h", "i">>,
     <<"k", "i", "k", " ", "@", "x">>,
     <<"m", "u", "t", " ", "@", "x", " ", "3", "0">>,
     <<"m", "u", "t", " ", "h", "i", " ", "3", "0">>,
     <<"b", "a", "n", " ", "p", "r", "i", "v", "e", "t">>}

\* the mutes whose duration is no number
BadDurations ==
    {<<"m", "u", "t", " ", "@", "2", " ", "x">>}

\* the replies that tell how to write the command
UsageHints == {"usage", "user_not_found", "duration_not_number"}

C38_SanctionedSenderOnlyStatus ==
    [][\A u \in UserIds :
          (/\ last'.op = "message"
           /\ last'.user = u
           /\ \/ is_banned(users, u)
              \/ /\ users[u].present
                 /\ users[u].mute_until # NULL
                 /\ now <= users[u].mute_until)
          => /\ users' = users
             /\ chat_admins' = chat_admins
             /\ replies' = <<Reply(IF is_banned(users, u) THEN "banned"
                                   ELSE "muted", 0)>>
             /\ ~last'.processed
             /\ ~last'.ok]_vars

\* a banned platform administrator has sent a ban of a user who is not banned
C38_Witness ==
    /\ last.op = "message"
    /\ last.kind = "ban"
    /\ last.vk
    /\ last.user # last.target
    /\ is_banned(users, last.user)
    /\ ~is_banned(users, last.target)
    /\ users[last.target].present
    /\ replies = <<Reply("banned", 0)>>

\* C39: after mute_user has returned True for a user, with or without a row,
\* is_muted tells that the user is muted.
C39_SetterTakesEffect ==
    (last.op = "mute_user" /\ last.ok)
        => is_muted(users, last.user, now).ret

\* C40: after ban_user of ModerationSystem has reported success, whether or
\* not the target could be removed from the conversation, is_banned tells
\* that the target is banned.
C40_SuccessfulBanBans ==
    (last.op = "ban" /\ last.ok) => is_banned(users, last.target)

====
